---------------------------- MODULE Spec2Model ----------------------------
(***************************************************************************)
(* Status reconciliation engine of the n8n WhatsApp status tracker.        *)
(*                                                                         *)
(* The module models, from track_message_status.py (and the copy of        *)
(* request_with_retry in retry_failed_executions.py):                      *)
(*   - request_with_retry      one HTTP call with bounded retry            *)
(*   - fetch_executions        the pagination loop over the listing API    *)
(*   - extract_status_updates, determine_latest_status and helpers         *)
(*   - track_message_status    scan, early exit, dedup, sort, resolve      *)
(*   - list_recent_messages    bulk grouping and per-group resolution      *)
(*   - save_messages_to_mongodb the upsert decision rule                   *)
(*                                                                         *)
(* Python's None is the empty sequence <<>> and a present value v is the   *)
(* one-element sequence <<v>>, so that optional values stay comparable.    *)
(***************************************************************************)
EXTENDS Integers, Sequences, FiniteSets, TLC

VARIABLES
    caller,       \* which entry point drives this behaviour
    pc,           \* position in the running code
    \* ---- request_with_retry
    attempt,      \* loop variable of request_with_retry (1-indexed)
    sleeps,       \* number of time.sleep(backoff) calls made by the current call
    attemptLog,   \* outcomes of session.request seen by a call made on its own, in order
    httpResult,   \* how the current call of request_with_retry ended
    \* ---- fetch_executions
    limit,        \* parameter limit (the requested count N)
    out,          \* local out
    fetched,      \* local fetched
    cursor,       \* local cursor
    calls,        \* listing calls made so far, each [limit, cursor] as requested
    received,     \* batches received so far, in order
    \* ---- determine_latest_status
    history,      \* the history handed to determine_latest_status
    resolved,     \* its return value, [status, timestamp]
    \* ---- track_message_status / list_recent_messages
    wa_id,        \* parameter wa_id (None: no recipient filter, bulk mode only)
    since,        \* parameter since (None when not given)
    executions,   \* the list returned by fetch_executions
    scanIdx,      \* index in executions of the execution the scan loop is at
    extracted,    \* every event extract_status_updates returned, before the since filter
    all_statuses, \* local all_statuses as collected by the scan loop
    found_terminal, \* local found_terminal
    max_messages, \* parameter max_messages of list_recent_messages
    store,        \* the collection: messageId -> None or Some(document)
    prior,        \* the collection as it was when the current save began
    now,          \* local now of save_messages_to_mongodb, a clock reading
    runs,         \* calls of save_messages_to_mongodb made so far
    messages,     \* parameter messages of save_messages_to_mongodb
    saveIdx,      \* position of the for loop over messages
    updates,      \* local updates
    saved,        \* return value of save_messages_to_mongodb, -1 before it returns
    workers,      \* two runs saving at the same time: what each has read and queued
    mongo,        \* how the store answers: "ok", "down", "index_error", "write_error"
    output,       \* what main has printed on stdout, None before it prints
    payload,      \* the entries of the execution handed to extract_status_updates
    extraction,   \* how that call ended: [raised, results]
    result        \* the result object returned

httpVars  == <<attempt, sleeps, attemptLog, httpResult>>
fetchVars == <<limit, out, fetched, cursor, calls, received>>
reconVars == <<history, resolved>>
scanVars  == <<wa_id, since, executions, scanIdx, extracted, all_statuses,
               found_terminal, max_messages, result>>
saveVars  == <<store, prior, now, runs, messages, saveIdx, updates, saved>>
extractVars == <<payload, extraction>>
mainVars  == <<mongo, output>>
otherVars == <<workers, extractVars, mainVars>>
vars      == <<caller, pc, httpVars, fetchVars, reconVars, scanVars, saveVars, otherVars>>

-----------------------------------------------------------------------------
(* Optional values and sequence helpers *)

None == <<>>

Some(v) == <<v>>

IsNone(o) == o = <<>>

\* Python truthiness of an optional string
TruthyStr(o) == o # None /\ o[1] # ""

\* Python truthiness of an optional list
TruthyList(o) == o # None /\ o[1] # <<>>

Min(a, b) == IF a <= b THEN a ELSE b

Max(a, b) == IF a >= b THEN a ELSE b

\* seq[:n] of Python for n >= 0 and for n < 0
Take(seq, n) ==
    IF n >= 0 THEN SubSeq(seq, 1, Min(n, Len(seq)))
    ELSE SubSeq(seq, 1, Max(Len(seq) + n, 0))

SeqsUpTo(S, n) == UNION { [1..k -> S] : k \in 0..n }

-----------------------------------------------------------------------------
(* Bounds of the model *)

\* largest requested count N
MaxLimit == 3

\* largest batch a server response carries
MaxBatch == 2

\* listing calls that are followed when more than MaxLimit records are asked
\* (a fetch of N records makes at most N calls)
MaxCalls == 2

\* execution identifiers the server can return
ExecIds == {"e1", "e2"}

-----------------------------------------------------------------------------
(* request_with_retry *)

max_retries == 5

TransientCodes == {429, 500, 502, 503, 504}

\* status codes a response can carry in the model: the transient ones, 200 and 404
StatusCodes == TransientCodes \cup {200, 404}

Batches == SeqsUpTo(ExecIds, MaxBatch)

\* JSON body of a listing response: data / executions (absent or a list) and
\* nextCursor (absent, empty or a token)
Bodies ==
    [ data : {None} \cup {Some(b) : b \in Batches},
      executions : {None} \cup {Some(b) : b \in {<<>>, <<"e1">>}},
      nextCursor : {None, Some(""), Some("c1"), Some("c2")} ]

NoBody == [data |-> None, executions |-> None, nextCursor |-> None]

\* what one session.request(...) can do: raise a transport exception, or return a
\* response with a status code and a body
TransportException == [kind |-> "exception", status |-> 0, body |-> NoBody]

Response(code, body) == [kind |-> "response", status |-> code, body |-> body]

\* the failure an attempt ends with: the transport exception itself, or the
\* RuntimeError("HTTP <code>: ...") raised at line 132
AttemptError(o) ==
    IF o.kind = "exception" THEN [type |-> "transport", status |-> 0]
    ELSE [type |-> "RuntimeError", status |-> o.status]

NoResult == [kind |-> "none", status |-> 0, body |-> NoBody,
             error |-> [type |-> "none", status |-> 0]]

IsTransient_mut(o) == o.kind = "response" /\ o.status \in (TransientCodes \ {429})

\* line 131: the response is classified as transient
IsTransient(o) == o.kind = "response" /\ o.status \in TransientCodes

\* an attempt fails when session.request raised or the status is transient
AttemptFails(o) == o.kind = "exception" \/ IsTransient(o)

LastAttempt_mut(n) == n = max_retries + 1

\* line 135: attempt == max_retries
LastAttempt(n) == n = max_retries

\* status codes the server answers a listing call with (one transient code stands
\* for the five, which request_with_retry treats alike)
ListingCodes == {200, 404, 503}

\* what session.request can do in one attempt; only a listing call reads the body
Outcomes ==
    IF caller = "retry"
    THEN {TransportException} \cup { Response(c, NoBody) : c \in StatusCodes }
    ELSE {TransportException} \cup
         { Response(c, NoBody) : c \in ListingCodes \ {200} } \cup
         { Response(200, b) : b \in Bodies }

\* one iteration of the for loop, lines 127-139, up to the sleep
request_with_retry_attempt ==
    /\ pc = "request"
    /\ \E o \in Outcomes :
         \* the log is kept for a call made on its own; inside fetch_executions
         \* the call is the same code and only attempt and sleeps are followed
         /\ attemptLog' = IF caller = "retry"
                            THEN Append(attemptLog, IF o.kind = "exception" THEN 0 ELSE o.status)
                            ELSE attemptLog
         /\ IF ~AttemptFails(o)
              THEN \* line 133: return resp
                   /\ httpResult' = [kind |-> "returned", status |-> o.status,
                                     body |-> o.body,
                                     error |-> [type |-> "none", status |-> 0]]
                   /\ pc' = "http_returned"
              ELSE IF LastAttempt(attempt)
              THEN \* line 136: raise
                   /\ httpResult' = [kind |-> "raised", status |-> 0, body |-> NoBody,
                                     error |-> AttemptError(o)]
                   /\ pc' = "http_raised"
              ELSE \* lines 137-139: compute backoff, print, then sleep
                   /\ httpResult' = httpResult
                   /\ pc' = "backoff"
    /\ UNCHANGED <<otherVars, saveVars, caller, attempt, sleeps, fetchVars, reconVars, scanVars>>

\* line 139: time.sleep(backoff), then the next iteration of
\* for attempt in range(1, max_retries + 1); line 140 follows an exhausted range
request_with_retry_sleep ==
    /\ pc = "backoff"
    /\ sleeps' = sleeps + 1
    /\ IF attempt < max_retries
         THEN /\ attempt' = attempt + 1
              /\ httpResult' = httpResult
              /\ pc' = "request"
         ELSE /\ attempt' = attempt
              /\ httpResult' = [kind |-> "raised", status |-> 0, body |-> NoBody,
                                error |-> [type |-> "unreachable", status |-> 0]]
              /\ pc' = "http_raised"
    /\ UNCHANGED <<otherVars, saveVars, caller, attemptLog, fetchVars, reconVars, scanVars>>

-----------------------------------------------------------------------------
(* fetch_executions *)

\* n8n caps a page at 100 records (line 342)
page_size_cap == 100

\* line 361: data.get("data") or data.get("executions") or []
EffectiveBatch(body) ==
    IF TruthyList(body.data) THEN body.data[1]
    ELSE IF TruthyList(body.executions) THEN body.executions[1]
    ELSE <<>>

\* line 365: data.get("nextCursor") or None
NextCursor(body) == IF TruthyStr(body.nextCursor) THEN body.nextCursor ELSE None

\* line 341: while fetched < limit
LoopContinues(f, l) == f < l

BreakAfter_mut(c, batch) == IsNone(c) /\ batch = <<>>

\* line 366: if not cursor or not batch
BreakAfter(c, batch) == IsNone(c) \/ batch = <<>>

PageLimit_mut(l, f) == l - f

\* line 342: min(100, limit - fetched)
PageLimit(l, f) == Min(page_size_cap, l - f)

\* lines 341-355: the loop test and the listing request of one iteration
fetch_executions_request ==
    /\ pc = "fetch_loop"
    /\ LoopContinues(fetched, limit)
    /\ limit > MaxLimit => Len(calls) < MaxCalls
    /\ calls' = Append(calls, [limit |-> PageLimit(limit, fetched),
                               cursor |-> IF TruthyStr(cursor) THEN cursor ELSE None])
    /\ attempt' = 1
    /\ sleeps' = 0
    /\ attemptLog' = <<>>
    /\ httpResult' = NoResult
    /\ pc' = "request"
    /\ UNCHANGED <<otherVars, saveVars, caller, limit, out, fetched, cursor, received, reconVars, scanVars>>

\* lines 357-367: the response of one iteration is processed
fetch_executions_response ==
    /\ pc = "http_returned"
    /\ caller # "retry"
    /\ IF httpResult.status # 200
         THEN \* line 358: raise RuntimeError
              /\ pc' = "fetch_raised"
              /\ UNCHANGED <<out, fetched, cursor, received>>
         ELSE LET batch == EffectiveBatch(httpResult.body)
                  c     == NextCursor(httpResult.body)
              IN  /\ out' = out \o batch
                  /\ fetched' = fetched + Len(batch)
                  /\ received' = Append(received, batch)
                  /\ cursor' = c
                  /\ pc' = IF BreakAfter(c, batch) THEN "fetch_return" ELSE "fetch_loop"
    \* the frame of request_with_retry is gone once resp is consumed
    /\ attempt' = 1 /\ sleeps' = 0 /\ attemptLog' = <<>> /\ httpResult' = NoResult
    /\ UNCHANGED <<otherVars, saveVars, caller, limit, calls, reconVars, scanVars>>

\* the exception of request_with_retry leaves fetch_executions uncaught
fetch_executions_propagate ==
    /\ pc = "http_raised"
    /\ caller # "retry"
    /\ pc' = "fetch_raised"
    /\ UNCHANGED <<otherVars, saveVars, caller, httpVars, fetchVars, reconVars, scanVars>>

\* line 341 with a false test: the loop ends
fetch_executions_exhausted ==
    /\ pc = "fetch_loop"
    /\ ~LoopContinues(fetched, limit)
    /\ pc' = "fetch_return"
    /\ UNCHANGED <<otherVars, saveVars, caller, httpVars, fetchVars, reconVars, scanVars>>

fetch_executions_result_mut == out

\* line 369: return out[:limit]
fetch_executions_result == Take(out, limit)

-----------------------------------------------------------------------------
(* Status events, get_status_priority, is_terminal_status, determine_latest_status *)

\* str.lower() on the status strings of the model
Lower(s) ==
    CASE s = "READ" -> "read"
      [] s = "Failed" -> "failed"
      [] s = "SENT" -> "sent"
      [] OTHER -> s

get_status_priority_mut(status) ==
    CASE status = "failed" -> 100
      [] status = "undelivered" -> 100
      [] status = "read" -> 50
      [] status = "delivered" -> 40
      [] status = "sent" -> 30
      [] OTHER -> 10

\* lines 502-510: priority_map.get(status.lower(), 10)
get_status_priority(status) ==
    LET l == Lower(status)
    IN  CASE l = "failed" -> 100
          [] l = "undelivered" -> 100
          [] l = "read" -> 50
          [] l = "delivered" -> 40
          [] l = "sent" -> 30
          [] l = "unknown" -> 10
          [] OTHER -> 10

\* line 515
is_terminal_status(status) == Lower(status) \in {"failed", "undelivered", "read"}

\* x.get("timestamp") or 0
TsOr0(ts) == IF IsNone(ts) THEN 0 ELSE ts[1]

\* comparison of Python tuples (a, b) of integers
KeyGreater(k1, k2) == k1[1] > k2[1] \/ (k1[1] = k2[1] /\ k1[2] > k2[2])

RECURSIVE InsertDesc(_, _)
\* p goes in front of the first entry with a smaller key, so behind equal keys
InsertDesc(p, s) ==
    IF s = <<>> THEN <<p>>
    ELSE IF KeyGreater(p.k, Head(s).k) THEN <<p>> \o s
    ELSE <<Head(s)>> \o InsertDesc(p, Tail(s))

RECURSIVE SortPairsDesc(_)
\* sorted(..., reverse=True) on [k, v] pairs: descending by k, and stable (entries
\* with equal keys keep their input order)
SortPairsDesc(s) ==
    IF s = <<>> THEN <<>>
    ELSE InsertDesc(s[Len(s)], SortPairsDesc(SubSeq(s, 1, Len(s) - 1)))

Values(pairs) == [i \in 1..Len(pairs) |-> pairs[i].v]

\* the sort key of lines 541-544 and 673-676
RankKey(e) == <<TsOr0(e.timestamp), get_status_priority(e.status)>>

SortByRankDesc(events) ==
    Values(SortPairsDesc([i \in 1..Len(events) |-> [k |-> RankKey(events[i]), v |-> events[i]]]))

ValidHistory_mut(h) == h

\* line 534: [h for h in history if not h.get("recipientMismatch")]
ValidHistory(h) == SelectSeq(h, LAMBDA e : ~e.recipientMismatch)

MismatchResult_mut(h) == [status |-> h[1].status, timestamp |-> h[1].timestamp]

\* lines 531 and 536: ("wa_id_mismatch", history[0].get("timestamp"))
MismatchResult(h) == [status |-> "wa_id_mismatch", timestamp |-> h[1].timestamp]

\* lines 526-549
determine_latest_status(h) ==
    IF h = <<>> THEN [status |-> "not_found", timestamp |-> None]
    ELSE IF \A i \in 1..Len(h) : h[i].recipientMismatch THEN MismatchResult(h)
    ELSE LET valid_history == ValidHistory(h)
         IN  IF valid_history = <<>> THEN MismatchResult(h)
             ELSE LET latest == SortByRankDesc(valid_history)[1]
                  IN  [status |-> latest.status, timestamp |-> latest.timestamp]

\* longest history handed to determine_latest_status on its own
MaxHist == 3

\* one status per priority level, two at the top level, and one written in capitals
ReconStatuses == {"delivered", "READ", "failed", "undelivered", "pending"}

ReconTimestamps == {None, Some(-1), Some(0), Some(1)}

\* determine_latest_status reads status, timestamp and recipientMismatch only
ReconEvents ==
    [ status : ReconStatuses, timestamp : ReconTimestamps,
      recipient_id : {None}, executionId : {"e1"}, recipientMismatch : BOOLEAN ]

NoResolved == [status |-> "", timestamp |-> None]

\* the caller collects one more event
reconcile_input ==
    /\ pc = "resolve"
    /\ Len(history) < MaxHist
    /\ \E e \in ReconEvents : history' = Append(history, e)
    /\ UNCHANGED <<otherVars, saveVars, caller, pc, httpVars, fetchVars, resolved, scanVars>>

\* result = determine_latest_status(history)
determine_latest_status_call ==
    /\ pc = "resolve"
    /\ resolved' = determine_latest_status(history)
    /\ pc' = "resolved"
    /\ UNCHANGED <<otherVars, saveVars, caller, httpVars, fetchVars, history, scanVars>>

-----------------------------------------------------------------------------
(* Execution payloads, normalize_timestamp, extract_status_updates *)

\* JSON values a status entry can carry under "timestamp": null or missing, an
\* integer, a string (its characters), or any other value
TsNull == [t |-> "null", v |-> 0, s |-> <<>>]

TsInt(n) == [t |-> "int", v |-> n, s |-> <<>>]

TsStr(chars) == [t |-> "str", v |-> 0, s |-> chars]

TsOther == [t |-> "other", v |-> 0, s |-> <<>>]

Digits == <<"0", "1", "2", "3", "4", "5", "6", "7", "8", "9">>

IsDigit(c) == \E d \in 1..10 : Digits[d] = c

DigitValue(c) == (CHOOSE d \in 1..10 : Digits[d] = c) - 1

RECURSIVE DecimalValue(_)
DecimalValue(chars) ==
    IF chars = <<>> THEN 0
    ELSE 10 * DecimalValue(SubSeq(chars, 1, Len(chars) - 1)) + DigitValue(chars[Len(chars)])

\* int(ts) for a string of the model: an optional sign and decimal digits;
\* anything else is a ValueError, here None
ParseInt(chars) ==
    LET signed == chars # <<>> /\ chars[1] \in {"-", "+"}
        body   == IF signed THEN Tail(chars) ELSE chars
    IN  IF body = <<>> \/ \E i \in 1..Len(body) : ~IsDigit(body[i]) THEN None
        ELSE IF signed /\ chars[1] = "-" THEN Some(0 - DecimalValue(body))
        ELSE Some(DecimalValue(body))

\* lines 376-387
normalize_timestamp(ts) ==
    CASE ts.t = "null" -> None
      [] ts.t = "int" -> Some(ts.v)
      [] ts.t = "str" -> ParseInt(ts.s)
      [] OTHER -> None

\* one entry of a "statuses" list as the scan meets it, in document order
StatusObj(id, status, ts, rcp) ==
    [shape |-> "ok", id |-> id, status |-> status, timestamp |-> ts, recipient_id |-> rcp]

\* a branch of the payload tree that holds no status entry, by its shape
Branch(shape) ==
    [shape |-> shape, id |-> "", status |-> "", timestamp |-> TsNull, recipient_id |-> None]

\* shapes on which the traversal raises: a run whose "data" is null (line 444),
\* an item whose "json" is not an object (line 455), a body that is a scalar or
\* a list whose first element is a scalar (lines 458-462)
RaisingShapes == {"run_data_null", "json_not_object", "body_scalar", "body_wraps_scalar"}

\* shapes the traversal passes over: "statuses" that is not a list (lines
\* 463-464), a run without "data" (line 444)
SkippedShapes == {"statuses_not_list", "run_without_data"}

TraversalRaises(o) == o.shape \in RaisingShapes

BadBranch == Branch("run_data_null")

\* track mode follows this message for this recipient
message_id == "m1"

TrackedWaId == "w1"

\* the entries executions carry in the model
PayloadEntries ==
    { StatusObj("m1", "sent", TsInt(1), Some("w1")),
      StatusObj("m1", "delivered", TsStr(<<"2">>), Some("w1")),
      StatusObj("m1", "READ", TsInt(2), Some("w1")),
      StatusObj("m1", "sent", TsNull, None),
      StatusObj("m1", "failed", TsInt(3), Some("w2")),
      StatusObj("m2", "read", TsInt(2), Some("w1")),
      StatusObj("m2", "sent", TsInt(1), Some("w2")),
      StatusObj("m2", "delivered", TsInt(0), Some("w1")),
      StatusObj("", "sent", TsInt(1), Some("w1")),
      BadBranch }
    \cup { Branch(shape) : shape \in RaisingShapes \cup SkippedShapes }

\* most entries one execution carries
MaxEntries == 2

\* most events one scan collects
MaxEvents == 3

ExecContents == SeqsUpTo(PayloadEntries, MaxEntries)

RecipientMismatch_mut(recipient_id, wa) == recipient_id # Some(wa)

\* lines 481-483: recipient_id and recipient_id != wa_id
RecipientMismatch(recipient_id, wa) == TruthyStr(recipient_id) /\ recipient_id[1] # wa

\* lines 476-492: the event built from one matching entry
StatusEvent(o, execution_id, wa) ==
    [ status |-> o.status,
      timestamp |-> normalize_timestamp(o.timestamp),
      recipient_id |-> o.recipient_id,
      executionId |-> execution_id,
      recipientMismatch |-> RecipientMismatch(o.recipient_id, wa) ]

\* lines 422-494: [raised, results] for the execution with identifier execution_id
\* and the entries given
extract_status_updates(execution_id, entries, mid, wa) ==
    IF \E i \in 1..Len(entries) : TraversalRaises(entries[i])
    THEN [raised |-> TRUE, results |-> <<>>]
    ELSE LET matching == SelectSeq(entries, LAMBDA o : o.shape = "ok" /\ o.id = mid)
         IN  [raised |-> FALSE,
              results |-> [i \in 1..Len(matching) |-> StatusEvent(matching[i], execution_id, wa)]]

\* lines 405-494: one call, on the execution "e1" carrying payload
extract_status_updates_call ==
    /\ pc = "extract"
    /\ caller = "extract"
    /\ extraction' = extract_status_updates("e1", payload, message_id, TrackedWaId)
    /\ pc' = "extracted"
    /\ UNCHANGED <<caller, payload, workers, mainVars, saveVars, httpVars, fetchVars,
                   reconVars, scanVars>>

\* what extract_status_updates returns for an execution of the model with the
\* given identifier, over all the payloads it can carry
Extractions ==
    [ id \in ExecIds |->
        { extract_status_updates(id, entries, message_id, TrackedWaId) :
            entries \in ExecContents } ]

-----------------------------------------------------------------------------
(* track_message_status *)

SinceFilter_mut(statuses, snc) == statuses

\* lines 745-746
SinceFilter(statuses, snc) ==
    IF IsNone(snc) \/ snc[1] = 0 THEN statuses
    ELSE SelectSeq(statuses, LAMBDA e : TsOr0(e.timestamp) >= snc[1])

\* lines 772-777
DedupKey(e) == <<e.status, e.timestamp, e.recipient_id, e.executionId>>

RECURSIVE DedupFrom(_, _)
DedupFrom(events, seen) ==
    IF events = <<>> THEN <<>>
    ELSE IF DedupKey(Head(events)) \in seen THEN DedupFrom(Tail(events), seen)
    ELSE <<Head(events)>> \o DedupFrom(Tail(events), seen \cup {DedupKey(Head(events))})

\* lines 767-784
Deduplicate(events) == DedupFrom(events, {})

SortByTimestampDesc_mut(events) ==
    LET n == Len(events)
    IN  Values(SortPairsDesc(
            [i \in 1..n |-> [k |-> <<TsOr0(events[n + 1 - i].timestamp), 0>>,
                             v |-> events[n + 1 - i]]]))

\* line 787: all_statuses.sort(key=timestamp or 0, reverse=True)
SortByTimestampDesc(events) ==
    Values(SortPairsDesc(
        [i \in 1..Len(events) |-> [k |-> <<TsOr0(events[i].timestamp), 0>>, v |-> events[i]]]))

HasTerminal_mut(statuses) ==
    \E i \in 1..Len(statuses) : statuses[i].status \in {"failed", "undelivered", "read"}

\* lines 753-755
HasTerminal(statuses) == \E i \in 1..Len(statuses) : is_terminal_status(statuses[i].status)

NoTrackResult ==
    [latestStatus |-> "", latestTimestamp |-> None, history |-> <<>>,
     foundInExecutionsCount |-> -1]

TrackResult_mut(statuses) ==
    LET hist   == SortByTimestampDesc(Deduplicate(statuses))
        latest == determine_latest_status(hist)
    IN  [latestStatus |-> latest.status,
         latestTimestamp |-> IF hist = <<>> THEN None ELSE hist[1].timestamp,
         history |-> hist, foundInExecutionsCount |-> Len(hist)]

\* lines 766-802: deduplicate, sort, resolve, build the result
TrackResult(statuses) ==
    LET hist   == SortByTimestampDesc(Deduplicate(statuses))
        latest == determine_latest_status(hist)
    IN  [latestStatus |-> latest.status, latestTimestamp |-> latest.timestamp,
         history |-> hist, foundInExecutionsCount |-> Len(hist)]

\* lines 725-738: fetch_executions has returned
track_fetch_return ==
    /\ pc = "fetch_return"
    /\ caller = "track"
    /\ executions' = fetch_executions_result
    /\ scanIdx' = 1
    /\ extracted' = <<>>
    /\ all_statuses' = <<>>
    /\ found_terminal' = FALSE
    /\ pc' = IF fetch_executions_result = <<>> THEN "scan_done" ELSE "scan"
    \* the frame of fetch_executions is gone
    /\ out' = <<>> /\ fetched' = 0 /\ cursor' = None /\ calls' = <<>> /\ received' = <<>>
    /\ UNCHANGED <<otherVars, saveVars, caller, httpVars, limit, reconVars, wa_id, since, max_messages, result>>

\* lines 740-764: one iteration of the scan loop, on executions[scanIdx]
track_scan_execution ==
    /\ pc = "scan"
    /\ caller = "track"
    /\ wa_id = Some(TrackedWaId)
    /\ executions[scanIdx] \in ExecIds
    /\ \E ex \in Extractions[executions[scanIdx]] :
         LET statuses == SinceFilter(ex.results, since)
             term     == found_terminal \/ HasTerminal(statuses)
             last     == scanIdx = Len(executions)
         IN  /\ Len(extracted) + Len(ex.results) <= MaxEvents
             /\ extracted' = extracted \o ex.results
             /\ IF ex.raised \/ statuses = <<>>
                  THEN \* nothing collected (lines 761-764 for an exception)
                       /\ UNCHANGED <<all_statuses, found_terminal>>
                       /\ scanIdx' = IF last THEN scanIdx ELSE scanIdx + 1
                       /\ pc' = IF last THEN "scan_done" ELSE "scan"
                  ELSE /\ all_statuses' = all_statuses \o statuses
                       /\ found_terminal' = term
                       \* line 758: break
                       /\ scanIdx' = IF term \/ last THEN scanIdx ELSE scanIdx + 1
                       /\ pc' = IF term \/ last THEN "scan_done" ELSE "scan"
    /\ UNCHANGED <<otherVars, saveVars, caller, httpVars, fetchVars, reconVars, wa_id, since, executions,
                   max_messages, result>>

\* an element of the listing that is not an object (null, a string, a number)
NotAnObject == "null"

\* lines 742 and 761-764: execution.get raises in extract_status_updates, and
\* again in the handler that builds the warning, which nothing catches
track_scan_raise ==
    /\ pc = "scan"
    /\ caller = "track"
    /\ executions[scanIdx] = NotAnObject
    /\ pc' = "scan_raised"
    /\ UNCHANGED <<otherVars, saveVars, caller, httpVars, fetchVars, reconVars, scanVars>>

\* lines 766-804
track_finish ==
    /\ pc = "scan_done"
    /\ caller = "track"
    /\ result' = TrackResult(all_statuses)
    /\ pc' = "done"
    /\ UNCHANGED <<otherVars, saveVars, caller, httpVars, fetchVars, reconVars, wa_id, since, executions,
                   scanIdx, extracted, all_statuses, found_terminal, max_messages>>

-----------------------------------------------------------------------------
(* list_recent_messages *)

\* lines 647-654: the entry appended to all_statuses for one status entry
BulkEvent(o, execution_id) ==
    [ messageId |-> o.id,
      waId |-> o.recipient_id,
      status |-> o.status,
      timestamp |-> normalize_timestamp(o.timestamp),
      executionId |-> execution_id ]

BulkKeeps_unfiltered(o, wa, snc) ==
    /\ o.shape = "ok"
    /\ o.id # ""
    /\ ~( ~IsNone(snc) /\ snc[1] # 0 /\ TsOr0(normalize_timestamp(o.timestamp)) < snc[1] )

BulkKeeps_mut(o, wa, snc) ==
    /\ o.shape = "ok"
    /\ ~( ~IsNone(snc) /\ snc[1] # 0 /\ TsOr0(normalize_timestamp(o.timestamp)) < snc[1] )
    /\ ~( TruthyStr(wa) /\ TruthyStr(o.recipient_id) /\ o.recipient_id[1] # wa[1] )

\* lines 632-645: the entry has an id and passes the since and wa_id filters
BulkKeeps(o, wa, snc) ==
    /\ o.shape = "ok"
    /\ o.id # ""
    /\ ~( ~IsNone(snc) /\ snc[1] # 0 /\ TsOr0(normalize_timestamp(o.timestamp)) < snc[1] )
    /\ ~( TruthyStr(wa) /\ TruthyStr(o.recipient_id) /\ o.recipient_id[1] # wa[1] )

RECURSIVE BulkScan(_, _, _, _)
\* lines 594-657 for one execution: entries are appended in document order until
\* the traversal raises, which ends the work on this execution
BulkScan(execution_id, entries, wa, snc) ==
    IF entries = <<>> \/ TraversalRaises(Head(entries)) THEN <<>>
    ELSE (IF BulkKeeps(Head(entries), wa, snc)
          THEN <<BulkEvent(Head(entries), execution_id)>> ELSE <<>>)
         \o BulkScan(execution_id, Tail(entries), wa, snc)

\* recipient filters of the model: none, and the tracked recipient
WaFilters == {None, Some(TrackedWaId)}

\* the --since values tried: none, and 2
SinceValues == {None, Some(2)}

\* what the scan of one execution appends, over all the payloads it can carry
BulkScans ==
    [ id \in ExecIds, wa \in WaFilters, snc \in SinceValues |->
        { BulkScan(id, entries, wa, snc) : entries \in ExecContents } ]

RECURSIVE FirstSeenIds(_, _)
\* the keys of messages_map in insertion order (lines 660-665)
FirstSeenIds(events, seen) ==
    IF events = <<>> THEN <<>>
    ELSE IF Head(events).messageId \in seen THEN FirstSeenIds(Tail(events), seen)
    ELSE <<Head(events).messageId>>
         \o FirstSeenIds(Tail(events), seen \cup {Head(events).messageId})

\* lines 671-678: the group's statuses, sorted, become the history as they are
GroupHistory(statuses) == SortByRankDesc(statuses)

\* lines 669-689: the record of one message
MessageRecord(msg_id, events) ==
    LET statuses        == SelectSeq(events, LAMBDA e : e.messageId = msg_id)
        sorted_statuses == GroupHistory(statuses)
        latest          == sorted_statuses[1]
    IN  [ messageId |-> msg_id,
          waId |-> latest.waId,
          latestStatus |-> latest.status,
          latestTimestamp |-> latest.timestamp,
          statusCount |-> Len(statuses),
          history |-> sorted_statuses ]

\* lines 659-702
BulkResult(events, maxm) ==
    LET ids      == FirstSeenIds(events, {})
        records  == [i \in 1..Len(ids) |-> MessageRecord(ids[i], events)]
        sorted   == Values(SortPairsDesc(
                      [i \in 1..Len(records) |->
                          [k |-> <<TsOr0(records[i].latestTimestamp), 0>>, v |-> records[i]]]))
    IN  [ totalMessages |-> Len(ids), messages |-> Take(sorted, maxm) ]

NoBulkResult == [totalMessages |-> -1, messages |-> <<>>]

\* lines 579-591: fetch_executions has returned
list_fetch_return ==
    /\ pc = "fetch_return"
    /\ caller = "bulk"
    /\ executions' = fetch_executions_result
    /\ scanIdx' = 1
    /\ all_statuses' = <<>>
    /\ pc' = IF fetch_executions_result = <<>> THEN "scan_done" ELSE "scan"
    \* the frame of fetch_executions is gone
    /\ out' = <<>> /\ fetched' = 0 /\ cursor' = None /\ calls' = <<>> /\ received' = <<>>
    /\ UNCHANGED <<otherVars, saveVars, caller, httpVars, limit, reconVars, wa_id, since, extracted,
                   found_terminal, max_messages, result>>

\* lines 593-657: one iteration of the scan loop, on executions[scanIdx]
list_scan_execution ==
    /\ pc = "scan"
    /\ caller = "bulk"
    /\ executions[scanIdx] \in ExecIds
    /\ \E appended \in BulkScans[executions[scanIdx], wa_id, since] :
         /\ Len(all_statuses) + Len(appended) <= MaxEvents
         /\ all_statuses' = all_statuses \o appended
    /\ scanIdx' = IF scanIdx = Len(executions) THEN scanIdx ELSE scanIdx + 1
    /\ pc' = IF scanIdx = Len(executions) THEN "scan_done" ELSE "scan"
    /\ UNCHANGED <<otherVars, saveVars, caller, httpVars, fetchVars, reconVars, wa_id, since, executions,
                   extracted, found_terminal, max_messages, result>>

\* lines 595 and 655-657: execution.get raises in the loop body, and again in
\* the handler that builds the warning, which nothing catches
list_scan_raise ==
    /\ pc = "scan"
    /\ caller = "bulk"
    /\ executions[scanIdx] = NotAnObject
    /\ pc' = "scan_raised"
    /\ UNCHANGED <<otherVars, saveVars, caller, httpVars, fetchVars, reconVars, scanVars>>

\* lines 659-702
list_finish ==
    /\ pc = "scan_done"
    /\ caller = "bulk"
    /\ result' = BulkResult(all_statuses, max_messages)
    /\ pc' = "done"
    /\ UNCHANGED <<otherVars, saveVars, caller, httpVars, fetchVars, reconVars, wa_id, since, executions,
                   scanIdx, extracted, all_statuses, found_terminal, max_messages>>

\* lines 556-702 in one piece, when fetch_executions returned the one execution
\* "e1" carrying payload: scan, group, resolve each group, sort, truncate
list_recent_messages_call ==
    /\ pc = "list"
    /\ caller = "list"
    /\ all_statuses' = BulkScan("e1", payload, wa_id, since)
    /\ result' = BulkResult(all_statuses', max_messages)
    /\ pc' = "listed"
    /\ UNCHANGED <<otherVars, saveVars, caller, httpVars, fetchVars, reconVars, wa_id, since,
                   executions, scanIdx, extracted, found_terminal, max_messages>>

-----------------------------------------------------------------------------
(* save_messages_to_mongodb *)

\* message ids the collection is keyed by
MessageIds == {"m1", "m2"}

HistoryKey(item) == <<item.status, item.timestamp, item.executionId>>

deduplicate_history_mut(h) == h

RECURSIVE deduplicate_history(_)
\* lines 163-183: the first entry of each (status, timestamp, executionId) is kept
deduplicate_history(h) ==
    IF h = <<>> THEN <<>>
    ELSE LET rest == deduplicate_history(SubSeq(h, 1, Len(h) - 1))
             item == h[Len(h)]
         IN  IF \E i \in 1..Len(rest) : HistoryKey(rest[i]) = HistoryKey(item)
             THEN rest ELSE Append(rest, item)

\* a record as main hands it over (lines 856-858 and 885-893): k history
\* entries with one (status, timestamp, executionId), the first of the tracked
\* recipient and the others of no recipient
MessageRecord_saved(id, status, ts, k) ==
    [ messageId |-> id,
      waId |-> Some(TrackedWaId),
      latestStatus |-> status,
      latestTimestamp |-> ts,
      statusCount |-> k,
      history |-> [i \in 1..k |->
                     [ status |-> status, timestamp |-> ts,
                       recipientId |-> IF i = 1 THEN Some(TrackedWaId) ELSE None,
                       executionId |-> "e1" ]] ]

\* the records tried for one message id: nothing found, a status without a
\* timestamp, sent at 1 and 2, delivered at 2, some with a repeated history entry
SaveRecords(id) ==
    { MessageRecord_saved(id, "not_found", None, 0),
      MessageRecord_saved(id, "sent", None, 2),
      MessageRecord_saved(id, "sent", Some(1), 1),
      MessageRecord_saved(id, "sent", Some(2), 1),
      MessageRecord_saved(id, "delivered", Some(2), 2) }

\* longest messages list tried
MaxSaved == 2

\* most calls of save_messages_to_mongodb on one collection
MaxRuns == 2

\* the lists tried: at most one record per message id, and a record without an id
SaveBatches ==
    { b \in SeqsUpTo(UNION { SaveRecords(id) : id \in MessageIds }
                       \cup { MessageRecord_saved("", "sent", Some(1), 1) }, MaxSaved) :
        /\ b # <<>>
        /\ \A i, j \in 1..Len(b) : i # j => b[i].messageId # b[j].messageId }

\* lines 272-290: the document of a new message
NewDocument(msg, t) ==
    LET deduplicated_history == deduplicate_history(msg.history)
    IN  [ conversation_id |-> msg.waId,
          latestStatus |-> msg.latestStatus,
          latestTimestamp |-> msg.latestTimestamp,
          statusCount |-> IF msg.history # <<>> THEN Len(deduplicated_history)
                          ELSE msg.statusCount,
          statusHistory |-> IF msg.history # <<>> THEN Some(deduplicated_history)
                            ELSE None,
          firstSeenAt |-> t,
          lastUpdatedAt |-> t,
          lastScannedAt |-> t ]

\* line 233: ">" between None and anything raises TypeError
ComparisonRaises(new_ts, existing_ts) == IsNone(new_ts) \/ IsNone(existing_ts)

StatusChanged_mut(msg, existing) ==
    \/ TsOr0(msg.latestTimestamp) # TsOr0(existing.latestTimestamp)
    \/ msg.latestStatus # existing.latestStatus

\* line 233, once the comparison can be made
StatusChanged(msg, existing) ==
    \/ TsOr0(msg.latestTimestamp) > TsOr0(existing.latestTimestamp)
    \/ msg.latestStatus # existing.latestStatus

\* lines 235-262, 265-269, 292-296: the operation queued for one record
UpdateOne(msg, existing, t) ==
    IF IsNone(existing)
    THEN [ kind |-> "insert", messageId |-> msg.messageId, doc |-> NewDocument(msg, t) ]
    ELSE IF StatusChanged(msg, existing[1])
    THEN [ kind |-> "update", messageId |-> msg.messageId,
           doc |-> [NewDocument(msg, t) EXCEPT !.firstSeenAt = existing[1].firstSeenAt] ]
    ELSE [ kind |-> "touch", messageId |-> msg.messageId, doc |-> [lastScannedAt |-> t] ]

ApplyUpdate_mut(st, op) ==
    IF op.kind = "insert"
    THEN IF IsNone(st[op.messageId]) THEN [st EXCEPT ![op.messageId] = Some(op.doc)] ELSE st
    ELSE IF op.kind = "update"
    THEN [st EXCEPT ![op.messageId] =
            Some([op.doc EXCEPT !.firstSeenAt = op.doc.lastUpdatedAt])]
    ELSE IF IsNone(st[op.messageId]) THEN st
    ELSE [st EXCEPT ![op.messageId] =
            Some([st[op.messageId][1] EXCEPT !.lastScannedAt = op.doc.lastScannedAt])]

\* what the collection does with one operation
ApplyUpdate(st, op) ==
    LET old == st[op.messageId]
    IN  IF op.kind = "insert"
        THEN \* $setOnInsert with upsert: written only if no document matches
             IF IsNone(old) THEN [st EXCEPT ![op.messageId] = Some(op.doc)] ELSE st
        ELSE IF op.kind = "update"
        THEN \* $set, and $setOnInsert of firstSeenAt, with upsert
             IF IsNone(old) THEN [st EXCEPT ![op.messageId] = Some(op.doc)]
             ELSE [st EXCEPT ![op.messageId] =
                     Some([op.doc EXCEPT
                             !.firstSeenAt = old[1].firstSeenAt,
                             !.statusHistory = IF IsNone(op.doc.statusHistory)
                                               THEN old[1].statusHistory
                                               ELSE op.doc.statusHistory])]
        ELSE \* $set of lastScannedAt without upsert
             IF IsNone(old) THEN st
             ELSE [st EXCEPT ![op.messageId] =
                     Some([old[1] EXCEPT !.lastScannedAt = op.doc.lastScannedAt])]

RECURSIVE bulk_write(_, _)
\* line 299: every queued operation is applied
bulk_write(st, ops) ==
    IF ops = <<>> THEN st ELSE bulk_write(ApplyUpdate(st, Head(ops)), Tail(ops))

\* lines 203-218: a call on the collection as the previous calls left it
save_messages_to_mongodb_call ==
    /\ pc = "save_returned"
    /\ caller = "save"
    /\ runs < MaxRuns
    /\ runs' = runs + 1
    /\ messages' \in SaveBatches
    /\ now' = now + 1
    /\ prior' = store
    /\ saveIdx' = 1
    /\ updates' = <<>>
    /\ saved' = -1
    /\ pc' = "save_loop"
    /\ UNCHANGED <<otherVars, caller, store, httpVars, fetchVars, reconVars, scanVars>>

\* the entry points that call save_messages_to_mongodb
SaveCallers == {"save", "main"}

SaveCatches_mut(exception) == exception = "BulkWriteError"

\* lines 307-312: except BulkWriteError, then except Exception
SaveCatches(exception) == TRUE

\* lines 220-296: one iteration of the loop over messages
save_messages_to_mongodb_record ==
    /\ pc = "save_loop"
    /\ caller \in SaveCallers
    /\ saveIdx <= Len(messages)
    /\ LET msg      == messages[saveIdx]
           existing == IF msg.messageId = "" THEN None ELSE store[msg.messageId]
       IN  IF msg.messageId = ""
           THEN /\ saveIdx' = saveIdx + 1
                /\ UNCHANGED <<pc, updates, saved>>
           ELSE IF ~IsNone(existing)
                   /\ ComparisonRaises(msg.latestTimestamp, existing[1].latestTimestamp)
           THEN \* lines 310-312: the exception ends the call
                /\ saved' = 0
                /\ pc' = IF SaveCatches("TypeError") THEN "save_returned" ELSE "main_raised"
                /\ UNCHANGED <<saveIdx, updates>>
           ELSE /\ updates' = Append(updates, UpdateOne(msg, existing, now))
                /\ saveIdx' = saveIdx + 1
                /\ UNCHANGED <<pc, saved>>
    /\ UNCHANGED <<otherVars, caller, store, prior, now, runs, messages,
                   httpVars, fetchVars, reconVars, scanVars>>

\* lines 298-305: the loop is over
save_messages_to_mongodb_write ==
    /\ pc = "save_loop"
    /\ caller \in SaveCallers
    /\ saveIdx > Len(messages)
    /\ IF updates # <<>> /\ mongo = "write_error"
       THEN \* lines 307-309: the store rejects the writes
            /\ saved' = 0
            /\ pc' = IF SaveCatches("BulkWriteError") THEN "save_returned" ELSE "main_raised"
            /\ UNCHANGED store
       ELSE /\ store' = bulk_write(store, updates)
            /\ saved' = Len(updates)
            /\ pc' = "save_returned"
    /\ UNCHANGED <<otherVars, caller, prior, now, runs, messages, saveIdx, updates,
                   httpVars, fetchVars, reconVars, scanVars>>

-----------------------------------------------------------------------------
(* Two runs saving the same message at the same time *)

\* the two runs
Workers == {1, 2}

\* clock readings the runs take at line 217
Clock == {1, 2}

NoOperation == [kind |-> "none", messageId |-> "", doc |-> [lastScannedAt |-> 0]]

\* a run about to save one record for the message "m1"
Worker(msg, t) == [stage |-> "start", msg |-> msg, now |-> t, op |-> NoOperation]

\* lines 220-303 for a list of one record, as one step: the collection after
\* save_messages_to_mongodb([msg]) has run alone on the collection st at time t
save_one(st, msg, t) ==
    LET existing == st[msg.messageId]
    IN  IF ~IsNone(existing)
           /\ ComparisonRaises(msg.latestTimestamp, existing[1].latestTimestamp)
        THEN st
        ELSE ApplyUpdate(st, UpdateOne(msg, existing, t))

\* lines 226-296 in run w: find_one, then the operation is queued on what it read
worker_find_one(w) ==
    /\ pc = "saving"
    /\ workers[w].stage = "start"
    /\ LET msg      == workers[w].msg
           existing == store[msg.messageId]
       IN  IF ~IsNone(existing)
              /\ ComparisonRaises(msg.latestTimestamp, existing[1].latestTimestamp)
           THEN workers' = [workers EXCEPT ![w].stage = "returned"]
           ELSE workers' = [workers EXCEPT
                              ![w].stage = "queued",
                              ![w].op = UpdateOne(msg, existing, workers[w].now)]
    /\ UNCHANGED <<caller, pc, extractVars, mainVars, saveVars, httpVars, fetchVars,
                   reconVars, scanVars>>

\* lines 298-303 in run w: bulk_write sends the queued operation
worker_bulk_write(w) ==
    /\ pc = "saving"
    /\ workers[w].stage = "queued"
    /\ store' = ApplyUpdate(store, workers[w].op)
    /\ workers' = [workers EXCEPT ![w].stage = "returned"]
    /\ UNCHANGED <<caller, pc, extractVars, mainVars, prior, now, runs, messages, saveIdx,
                   updates, saved, httpVars, fetchVars, reconVars, scanVars>>

-----------------------------------------------------------------------------
(* main: save the result of a track run, then print it *)

\* lines 885-893: the record main builds from the result
message_data(res, wa) ==
    [ messageId |-> message_id,
      waId |-> wa,
      latestStatus |-> res.latestStatus,
      latestTimestamp |-> res.latestTimestamp,
      statusCount |-> res.foundInExecutionsCount,
      history |-> res.history ]

\* results track_message_status returns after scanning one execution
TrackResults == { TrackResult(ex.results) : ex \in Extractions["e1"] }

\* how the store can answer: well, not at all (get_mongodb_client returns
\* None), by refusing create_index, by refusing the writes
MongoStates == {"ok", "down", "index_error", "write_error"}

\* lines 884-900 and 203-218: main calls save_messages_to_mongodb
main_save ==
    /\ pc = "main_result"
    /\ caller = "main"
    /\ messages' = <<message_data(result, wa_id)>>
    /\ now' = now + 1
    /\ runs' = runs + 1
    /\ prior' = store
    /\ saveIdx' = 1
    /\ updates' = <<>>
    /\ IF mongo = "down"
       THEN \* lines 203-205
            saved' = 0 /\ pc' = "save_returned"
       ELSE IF mongo = "index_error"
       THEN \* lines 212-215 raise inside the try
            saved' = 0
            /\ pc' = IF SaveCatches("OperationFailure") THEN "save_returned" ELSE "main_raised"
       ELSE saved' = -1 /\ pc' = "save_loop"
    /\ UNCHANGED <<caller, store, workers, extractVars, mainVars, httpVars, fetchVars,
                   reconVars, scanVars>>

\* line 903: print(json.dumps(result))
main_print ==
    /\ pc = "save_returned"
    /\ caller = "main"
    /\ output' = Some(result)
    /\ pc' = "exit"
    /\ UNCHANGED <<caller, mongo, workers, extractVars, saveVars, httpVars, fetchVars,
                   reconVars, scanVars>>

-----------------------------------------------------------------------------
(* Specifications *)

InitNoExtract ==
    /\ payload = <<>>
    /\ extraction = [raised |-> FALSE, results |-> <<>>]

InitNoMain ==
    /\ workers = <<>>
    /\ mongo = "ok"
    /\ output = None

InitNoSave ==
    /\ store = [id \in MessageIds |-> None]
    /\ prior = [id \in MessageIds |-> None]
    /\ now = 0
    /\ runs = 0
    /\ messages = <<>>
    /\ saveIdx = 1
    /\ updates = <<>>
    /\ saved = -1

InitHttp ==
    /\ attempt = 1
    /\ sleeps = 0
    /\ attemptLog = <<>>
    /\ httpResult = NoResult

InitFetchLocals ==
    /\ out = <<>>
    /\ fetched = 0
    /\ cursor = None
    /\ calls = <<>>
    /\ received = <<>>

\* one call of request_with_retry on its own (either script)
InitRecon ==
    /\ history = <<>>
    /\ resolved = NoResolved

InitScanLocals ==
    /\ executions = <<>>
    /\ scanIdx = 1
    /\ extracted = <<>>
    /\ all_statuses = <<>>
    /\ found_terminal = FALSE
    /\ result = NoTrackResult

InitNoScan ==
    /\ wa_id = None
    /\ since = None
    /\ max_messages = 0
    /\ InitScanLocals

InitRetry ==
    /\ InitNoSave
    /\ InitNoExtract
    /\ InitNoMain
    /\ caller = "retry"
    /\ pc = "request"
    /\ InitHttp
    /\ limit = 0
    /\ InitFetchLocals
    /\ InitRecon
    /\ InitNoScan

NextRetry ==
    \/ request_with_retry_attempt
    \/ request_with_retry_sleep

SpecRetry == InitRetry /\ [][NextRetry]_vars

\* one call of fetch_executions against an arbitrary server
InitFetch ==
    /\ InitNoSave
    /\ InitNoExtract
    /\ InitNoMain
    /\ caller = "fetch"
    /\ pc = "fetch_loop"
    /\ InitHttp
    /\ limit \in -1..MaxLimit
    /\ InitFetchLocals
    /\ InitRecon
    /\ InitNoScan

NextFetch ==
    \/ fetch_executions_request
    \/ request_with_retry_attempt
    \/ request_with_retry_sleep
    \/ fetch_executions_response
    \/ fetch_executions_propagate
    \/ fetch_executions_exhausted

SpecFetch == InitFetch /\ [][NextFetch]_vars

\* fetch_executions for counts below, at and above the page size cap
InitPaging ==
    /\ InitNoSave
    /\ InitNoExtract
    /\ InitNoMain
    /\ caller = "fetch"
    /\ pc = "fetch_loop"
    /\ InitHttp
    /\ limit \in {-1, 0, 1, page_size_cap, page_size_cap + 2}
    /\ InitFetchLocals
    /\ InitRecon
    /\ InitNoScan

SpecPaging == InitPaging /\ [][NextFetch]_vars

\* determine_latest_status applied to an arbitrary history
InitReconcile ==
    /\ InitNoSave
    /\ InitNoExtract
    /\ InitNoMain
    /\ caller = "reconcile"
    /\ pc = "resolve"
    /\ InitHttp
    /\ limit = 0
    /\ InitFetchLocals
    /\ InitRecon
    /\ InitNoScan

NextReconcile ==
    \/ reconcile_input
    \/ determine_latest_status_call

SpecReconcile == InitReconcile /\ [][NextReconcile]_vars

\* track_message_status: fetch, scan with early exit, deduplicate, resolve
InitTrack ==
    /\ InitNoSave
    /\ InitNoExtract
    /\ InitNoMain
    /\ caller = "track"
    /\ pc = "fetch_loop"
    /\ InitHttp
    /\ limit \in 0..MaxLimit
    /\ InitFetchLocals
    /\ InitRecon
    /\ wa_id = Some(TrackedWaId)
    /\ since \in SinceValues
    /\ max_messages = 0
    /\ InitScanLocals

NextTrack ==
    \/ NextFetch
    \/ track_fetch_return
    \/ track_scan_execution
    \/ track_finish

SpecTrack == InitTrack /\ [][NextTrack]_vars

\* largest max_messages tried
MaxMessages == 2

\* list_recent_messages: fetch, scan, group, resolve each group, sort, truncate
InitBulk ==
    /\ InitNoSave
    /\ InitNoExtract
    /\ InitNoMain
    /\ caller = "bulk"
    /\ pc = "fetch_loop"
    /\ InitHttp
    /\ limit \in 0..MaxLimit
    /\ InitFetchLocals
    /\ InitRecon
    /\ wa_id \in WaFilters
    /\ since \in SinceValues
    /\ max_messages \in 0..MaxMessages
    /\ executions = <<>>
    /\ scanIdx = 1
    /\ extracted = <<>>
    /\ all_statuses = <<>>
    /\ found_terminal = FALSE
    /\ result = NoBulkResult

NextBulk ==
    \/ NextFetch
    \/ list_fetch_return
    \/ list_scan_execution
    \/ list_finish

SpecBulk == InitBulk /\ [][NextBulk]_vars

\* two runs, each saving one record for "m1", on a collection that is empty or
\* holds what an earlier save of "m1" at time 0 left
InitConcurrent ==
    /\ caller = "concurrent"
    /\ pc = "saving"
    /\ store \in { [id \in MessageIds |-> IF id = "m1" THEN d ELSE None] :
                      d \in {None} \cup { Some(NewDocument(r, 0)) : r \in SaveRecords("m1") } }
    /\ prior = store
    /\ now = 0
    /\ runs = 0
    /\ messages = <<>>
    /\ saveIdx = 1
    /\ updates = <<>>
    /\ saved = -1
    /\ workers \in [Workers -> { Worker(r, t) : r \in SaveRecords("m1"), t \in Clock }]
    /\ mongo = "ok"
    /\ output = None
    /\ InitNoExtract
    /\ InitHttp
    /\ limit = 0
    /\ InitFetchLocals
    /\ InitRecon
    /\ InitNoScan

NextConcurrent ==
    \E w \in Workers :
        \/ worker_find_one(w)
        \/ worker_bulk_write(w)

SpecConcurrent == InitConcurrent /\ [][NextConcurrent]_vars

\* the end of main in track mode: the result is there, the collection is empty
\* or holds what an earlier run saved for the message
InitMain ==
    /\ caller = "main"
    /\ pc = "main_result"
    /\ result \in TrackResults
    /\ store \in { [id \in MessageIds |-> IF id = message_id THEN d ELSE None] :
                      d \in {None} \cup { Some(NewDocument(message_data(r, Some(TrackedWaId)), 0)) :
                                            r \in TrackResults } }
    /\ prior = store
    /\ now = 0
    /\ runs = 0
    /\ messages = <<>>
    /\ saveIdx = 1
    /\ updates = <<>>
    /\ saved = -1
    /\ workers = <<>>
    /\ mongo \in MongoStates
    /\ output = None
    /\ InitNoExtract
    /\ InitHttp
    /\ limit = 0
    /\ InitFetchLocals
    /\ InitRecon
    /\ wa_id = Some(TrackedWaId)
    /\ since = None
    /\ max_messages = 0
    /\ executions = <<>>
    /\ scanIdx = 1
    /\ extracted = <<>>
    /\ all_statuses = <<>>
    /\ found_terminal = FALSE

NextMain ==
    \/ main_save
    \/ save_messages_to_mongodb_record
    \/ save_messages_to_mongodb_write
    \/ main_print

SpecMain == InitMain /\ [][NextMain]_vars

\* longest list of executions handed to a scan on its own
MaxScan == 2

\* the scan loops of both modes on a fetched list whose elements need not be objects
InitScan ==
    /\ caller \in {"track", "bulk"}
    /\ pc = "scan"
    /\ InitNoSave
    /\ InitNoExtract
    /\ InitNoMain
    /\ InitHttp
    /\ limit = MaxScan
    /\ InitFetchLocals
    /\ InitRecon
    /\ wa_id \in (IF caller = "track" THEN {Some(TrackedWaId)} ELSE WaFilters)
    /\ since \in SinceValues
    /\ max_messages = MaxMessages
    /\ executions \in (SeqsUpTo(ExecIds \cup {NotAnObject}, MaxScan) \ {<<>>})
    /\ scanIdx = 1
    /\ extracted = <<>>
    /\ all_statuses = <<>>
    /\ found_terminal = FALSE
    /\ result = IF caller = "track" THEN NoTrackResult ELSE NoBulkResult

NextScan ==
    \/ track_scan_execution
    \/ track_scan_raise
    \/ track_finish
    \/ list_scan_execution
    \/ list_scan_raise
    \/ list_finish

SpecScan == InitScan /\ [][NextScan]_vars

\* extract_status_updates for the tracked message, and list_recent_messages,
\* on one fetched execution of any payload of the model
InitModes ==
    /\ caller \in {"extract", "list"}
    /\ pc = caller
    /\ payload \in ExecContents
    /\ extraction = [raised |-> FALSE, results |-> <<>>]
    /\ InitNoSave
    /\ InitNoMain
    /\ InitHttp
    /\ limit = 1
    /\ InitFetchLocals
    /\ InitRecon
    /\ wa_id \in (IF caller = "extract" THEN {Some(TrackedWaId)} ELSE WaFilters)
    /\ since \in (IF caller = "extract" THEN {None} ELSE SinceValues)
    /\ max_messages = MaxMessages
    /\ executions = <<"e1">>
    /\ scanIdx = 1
    /\ extracted = <<>>
    /\ all_statuses = <<>>
    /\ found_terminal = FALSE
    /\ result = NoBulkResult

NextModes ==
    \/ extract_status_updates_call
    \/ list_recent_messages_call

SpecModes == InitModes /\ [][NextModes]_vars

\* extract_status_updates on one execution of any payload of the model
InitExtract ==
    /\ caller = "extract"
    /\ pc = "extract"
    /\ payload \in ExecContents
    /\ extraction = [raised |-> FALSE, results |-> <<>>]
    /\ InitNoSave
    /\ InitNoMain
    /\ InitHttp
    /\ limit = 0
    /\ InitFetchLocals
    /\ InitRecon
    /\ InitNoScan

NextExtract == extract_status_updates_call

SpecExtract == InitExtract /\ [][NextExtract]_vars

\* save_messages_to_mongodb, called up to MaxRuns times on an empty collection
InitSave ==
    /\ caller = "save"
    /\ pc = "save_returned"
    /\ InitNoSave
    /\ InitNoExtract
    /\ InitNoMain
    /\ InitHttp
    /\ limit = 0
    /\ InitFetchLocals
    /\ InitRecon
    /\ InitNoScan

NextSave ==
    \/ save_messages_to_mongodb_call
    \/ save_messages_to_mongodb_record
    \/ save_messages_to_mongodb_write

SpecSave == InitSave /\ [][NextSave]_vars

-----------------------------------------------------------------------------
(* Claims about determine_latest_status *)

\* the priorities as the specification lists them, for the statuses of the model
ListedPriority(status) ==
    CASE status \in {"failed", "undelivered"} -> 100
      [] status \in {"READ", "read"} -> 50
      [] status = "delivered" -> 40
      [] status = "sent" -> 30
      [] OTHER -> 10

\* event a ranks strictly above event b: newer timestamp-or-0, or the same one
\* and a higher priority
RanksAbove(a, b) ==
    \/ TsOr0(a.timestamp) > TsOr0(b.timestamp)
    \/ /\ TsOr0(a.timestamp) = TsOr0(b.timestamp)
       /\ ListedPriority(a.status) > ListedPriority(b.status)

ValidIndices(h) == { i \in 1..Len(h) : ~h[i].recipientMismatch }

Ev(status, ts) ==
    [status |-> status, timestamp |-> ts, recipient_id |-> None,
     executionId |-> "e1", recipientMismatch |-> FALSE]

\* C4: when the history holds a non-mismatched event, determine_latest_status
\* returns the status and timestamp of a non-mismatched event that no other
\* non-mismatched event outranks on (timestamp-or-0, priority), timestamp first;
\* sent@100, delivered@200, read@150 resolves to delivered at 200.
C4_LatestIsLexMax ==
    /\ (pc = "resolved" /\ ValidIndices(history) # {}) =>
          \E i \in ValidIndices(history) :
              /\ resolved.status = history[i].status
              /\ resolved.timestamp = history[i].timestamp
              /\ \A j \in ValidIndices(history) : ~RanksAbove(history[j], history[i])
    /\ history = <<>> =>
          determine_latest_status(
            <<Ev("sent", Some(100)), Ev("delivered", Some(200)), Ev("read", Some(150))>>)
          = [status |-> "delivered", timestamp |-> Some(200)]

\* the newest event wins over an older event of higher priority, and at equal
\* timestamps READ (50) wins over delivered (40)
C4_Witness ==
    /\ caller = "reconcile"
    /\ pc = "resolved"
    /\ Len(history) = 3
    /\ history[1] = Ev("failed", Some(0))
    /\ history[2] = Ev("delivered", Some(1))
    /\ history[3] = Ev("READ", Some(1))
    /\ resolved = [status |-> "READ", timestamp |-> Some(1)]

\* C6: when the history is not empty and every event is recipient-mismatched, the
\* resolved status is wa_id_mismatch, which is the status of none of the events,
\* and the resolved timestamp is that of the first event of the history.
C6_AllMismatchedSentinel ==
    (pc = "resolved" /\ history # <<>> /\ ValidIndices(history) = {}) =>
        /\ resolved.status = "wa_id_mismatch"
        /\ \A i \in 1..Len(history) : resolved.status # history[i].status
        /\ resolved.timestamp = history[1].timestamp

\* two mismatched events, the first one older than the second
C6_Witness ==
    /\ caller = "reconcile"
    /\ pc = "resolved"
    /\ Len(history) = 2
    /\ history[1].recipientMismatch /\ history[2].recipientMismatch
    /\ history[1].status = "failed" /\ history[1].timestamp = Some(0)
    /\ history[2].status = "delivered" /\ history[2].timestamp = Some(1)
    /\ resolved = [status |-> "wa_id_mismatch", timestamp |-> Some(0)]

-----------------------------------------------------------------------------
(* Claims about track_message_status *)

Range(f) == { f[i] : i \in DOMAIN f }

\* the event's recipient is present and is not the tracked one
ForeignRecipient(e) == e.recipient_id # None /\ e.recipient_id # Some(TrackedWaId)

\* the event passes --since
PassesSince(e) == since = None \/ TsOr0(e.timestamp) >= since[1]

\* the statuses of the model that are terminal, in any letter case
TerminalStatuses == {"failed", "undelivered", "read", "READ", "Failed"}

\* C7: when the message has a non-mismatched event, the resolved status and
\* timestamp are those of a non-mismatched event, also when a mismatched event is
\* newer or of higher priority than every valid one, and every mismatched event
\* that was collected is in the returned history.
C7_MismatchExcludedButKept ==
    (pc = "done" /\ \E e \in Range(all_statuses) : ~ForeignRecipient(e)) =>
        /\ \E e \in Range(result.history) :
              /\ ~ForeignRecipient(e)
              /\ result.latestStatus = e.status
              /\ result.latestTimestamp = e.timestamp
        /\ \A e \in Range(all_statuses) :
              ForeignRecipient(e) => e \in Range(result.history)

\* a failed event at 3 for another recipient and a valid sent event at 1: sent wins
C7_Witness ==
    /\ caller = "track"
    /\ pc = "done"
    /\ Len(result.history) = 2
    /\ result.history[1].status = "failed" /\ ForeignRecipient(result.history[1])
    /\ result.history[1].timestamp = Some(3)
    /\ result.history[2].status = "sent" /\ ~ForeignRecipient(result.history[2])
    /\ result.latestStatus = "sent"
    /\ result.latestTimestamp = Some(1)

\* C8: with no event for the target (none found in a scanned execution, or all
\* of them older than since) the result is not_found with absent timestamp, empty
\* history and foundInExecutionsCount 0.
C8_NotFound ==
    (pc = "done" /\ \A e \in Range(extracted) : ~PassesSince(e)) =>
        /\ result.latestStatus = "not_found"
        /\ result.latestTimestamp = None
        /\ result.history = <<>>
        /\ result.foundInExecutionsCount = 0

\* an event of the target was extracted and removed by the since filter
C8_Witness ==
    /\ caller = "track"
    /\ pc = "done"
    /\ since = Some(2)
    /\ extracted # <<>>
    /\ all_statuses = <<>>
    /\ result.latestStatus = "not_found"

TerminalObserved == \E e \in Range(all_statuses) : e.status \in TerminalStatuses

\* C9 as amended: once the scan has collected a terminal-status event of the
\* target, it scans no further execution (the executions were all fetched before
\* the scan began).
C9_NoScanAfterTerminal ==
    /\ [](TerminalObserved =>
            /\ pc \in {"scan_done", "done"}
            /\ ~ENABLED track_scan_execution)
    /\ [][TerminalObserved =>
            /\ scanIdx' = scanIdx
            /\ all_statuses' = all_statuses
            /\ extracted' = extracted]_vars

\* execution #1 of 3 yields READ for the target: the scan ends at execution #1
C9_Witness ==
    /\ caller = "track"
    /\ pc = "done"
    /\ Len(executions) = 3
    /\ scanIdx = 1
    /\ Len(all_statuses) = 1
    /\ all_statuses[1].status = "READ"
    /\ result.latestStatus = "READ"

\* C9 as stated: once a terminal status of the target has been observed, no later
\* execution is fetched or scanned, so the execution that yielded it is the last
\* one fetch_executions returned.
C9_NoFetchOrScanAfterTerminal ==
    TerminalObserved => (scanIdx = Len(executions) /\ pc # "scan")

-----------------------------------------------------------------------------
(* Claims about request_with_retry *)

\* an entry of attemptLog that stands for a failed attempt: 0 is a transport
\* exception, otherwise the status code of the response
LoggedFailure(x) == x = 0 \/ x \in TransientCodes

AllFailed(log) == \A i \in 1..Len(log) : LoggedFailure(log[i])

\* C2: request_with_retry makes at most max_retries = 5 attempts; an attempt is
\* followed by another one exactly when it failed (transport exception or a status
\* in {429, 500, 502, 503, 504}) and was not the fifth; the first response with a
\* status outside that set is returned at once, with no further attempt.
C2_RetryPolicy ==
    /\ Len(attemptLog) <= max_retries
    /\ attempt \in 1..max_retries
    \* every attempt that was followed by another one had failed
    /\ \A i \in 1..(Len(attemptLog) - 1) : LoggedFailure(attemptLog[i])
    /\ pc = "request" => Len(attemptLog) = attempt - 1
    \* a retry is under way: the attempt failed and was not the last
    /\ pc = "backoff" =>
          /\ Len(attemptLog) = attempt
          /\ LoggedFailure(attemptLog[attempt])
          /\ attempt < max_retries
    \* a response outside the set ends the call with that response
    /\ pc = "http_returned" =>
          /\ Len(attemptLog) = attempt
          /\ ~LoggedFailure(attemptLog[attempt])
          /\ httpResult.kind = "returned"
          /\ httpResult.status = attemptLog[attempt]
          /\ ~ENABLED NextRetry
    \* a failure ends the call only at the fifth attempt
    /\ pc = "http_raised" =>
          /\ Len(attemptLog) = max_retries
          /\ LoggedFailure(attemptLog[max_retries])

\* a transport exception, then a 429, then a 404 that is returned
C2_Witness ==
    /\ caller = "retry"
    /\ pc = "http_returned"
    /\ attemptLog = <<0, 429, 404>>
    /\ httpResult.status = 404

\* C3: when all five attempts fail, the failure of the fifth attempt reaches the
\* caller as it is (the transport exception, or the RuntimeError made from the
\* transient status); the call returns nothing, exactly four sleeps happened and
\* none follows the fifth attempt.
C3_FinalFailurePropagates ==
    (Len(attemptLog) = max_retries /\ AllFailed(attemptLog)) =>
        /\ pc = "http_raised"
        /\ httpResult.kind = "raised"
        /\ httpResult.error =
              (IF attemptLog[max_retries] = 0
               THEN [type |-> "transport", status |-> 0]
               ELSE [type |-> "RuntimeError", status |-> attemptLog[max_retries]])
        /\ sleeps = max_retries - 1
        /\ ~ENABLED NextRetry

\* four failures of different kinds and a final 502
C3_Witness ==
    /\ caller = "retry"
    /\ attemptLog = <<500, 0, 429, 504, 502>>
    /\ pc = "http_raised"
    /\ httpResult.error = [type |-> "RuntimeError", status |-> 502]
    /\ sleeps = 4

-----------------------------------------------------------------------------
(* Claims about fetch_executions *)

\* steps request_with_retry can still take in the current call, plus the step
\* that consumes its result
CallRank ==
    CASE pc = "request" -> 2 * (max_retries - attempt) + 4
      [] pc = "backoff" -> 2 * (max_retries - attempt) + 3
      [] pc \in {"http_returned", "http_raised"} -> 2
      [] pc = "fetch_loop" -> 1
      [] OTHER -> 0

\* a variant of fetch_executions: listing calls still allowed by the requested
\* count, each worth a full retry budget, plus the rank within the current call
FetchRank == (Max(limit, 0) - Len(calls)) * (2 * max_retries + 3) + CallRank

LastBatch == received[Len(received)]

\* the loop is entered again only after a non-empty page that came with a cursor,
\* and the function returns only for one of the three reasons
FetchStopsAtFirstReason ==
    /\ Len(calls) <= Max(limit, 0)
    /\ (pc = "fetch_loop" /\ received # <<>>) =>
          (LastBatch # <<>> /\ TruthyStr(cursor))
    /\ (pc = "fetch_loop" /\ fetched >= limit) => ~ENABLED fetch_executions_request
    /\ pc = "fetch_return" =>
          \/ fetched >= limit
          \/ (received # <<>> /\ IsNone(cursor))
          \/ (received # <<>> /\ LastBatch = <<>>)

\* C1: fetch_executions terminates whatever the server answers, also when every
\* page is non-empty and carries the same cursor: every step lowers FetchRank,
\* which never drops below 0; the loop stops at the first of count reached, no
\* nextCursor, empty page, so it makes at most N listing calls.
C1_FetchTerminates ==
    /\ [](FetchRank >= 0)
    /\ [][FetchRank' < FetchRank]_vars
    /\ []FetchStopsAtFirstReason

\* a server that answers every call with one record and the cursor "c1": the
\* third call completes the requested three
C1_Witness ==
    /\ caller = "fetch"
    /\ pc = "fetch_return"
    /\ limit = 3
    /\ Len(calls) = 3
    /\ \A i \in 1..3 : Len(received[i]) = 1
    /\ calls[2].cursor = Some("c1") /\ calls[3].cursor = Some("c1")
    /\ cursor = Some("c1")

-----------------------------------------------------------------------------
(* History without duplicates, in both modes *)

\* no two entries of h agree on (status, timestamp, recipient, execution)
NoRepeatedEvent(h, Key(_)) ==
    \A i, j \in 1..Len(h) : i # j => Key(h[i]) # Key(h[j])

TrackEventKey(e) == <<e.status, e.timestamp, e.recipient_id, e.executionId>>

BulkEventKey(e) == <<e.status, e.timestamp, e.waId, e.executionId>>

\* C5: the history of every record produced, by track mode and by bulk mode,
\* holds no two events with the same (status, timestamp, recipientId,
\* executionId).  Bulk mode returns the group as collected, so an entry that a
\* payload carries twice is in the history twice.
C5_HistoryHasNoDuplicates ==
    /\ (caller = "track" /\ pc = "done") =>
           NoRepeatedEvent(result.history, TrackEventKey)
    /\ (caller = "bulk" /\ pc = "done") =>
           \A k \in 1..Len(result.messages) :
               NoRepeatedEvent(result.messages[k].history, BulkEventKey)

-----------------------------------------------------------------------------
(* The upsert decision rule *)

\* the history a stored document holds, empty when it has no statusHistory
StoredHistory(doc) == IF IsNone(doc.statusHistory) THEN <<>> ELSE doc.statusHistory[1]

\* outcome (1): the record is stored in full, all three times set to t
InsertedInFull(msg, after, t) ==
    /\ ~IsNone(after)
    /\ after[1].latestStatus = msg.latestStatus
    /\ after[1].latestTimestamp = msg.latestTimestamp
    /\ StoredHistory(after[1]) = deduplicate_history(msg.history)
    /\ after[1].firstSeenAt = t
    /\ after[1].lastUpdatedAt = t
    /\ after[1].lastScannedAt = t

\* outcome (2): nothing but the scan time is written
OnlyScanRefreshed(before, after, t) ==
    after = Some([before[1] EXCEPT !.lastScannedAt = t])

\* outcome (3): status, timestamp and history are replaced, firstSeenAt stays
Overwritten(msg, before, after, t) ==
    /\ ~IsNone(after)
    /\ after[1].latestStatus = msg.latestStatus
    /\ after[1].latestTimestamp = msg.latestTimestamp
    /\ StoredHistory(after[1]) = deduplicate_history(msg.history)
    /\ after[1].firstSeenAt = before[1].firstSeenAt
    /\ after[1].lastUpdatedAt = t

\* C10: when save_messages_to_mongodb has returned, every record with a
\* messageId was inserted in full (no document before), or only had its scan
\* time refreshed (stored timestamp equal or newer and same status), or was
\* overwritten (otherwise); an absent latestTimestamp counts as 0.  The
\* comparison of line 233 raises on an absent timestamp, the call returns 0
\* and nothing of the batch is written.
C10_ThreeOutcomes ==
    (caller = "save" /\ pc = "save_returned" /\ runs > 0) =>
        \A i \in 1..Len(messages) :
            LET msg    == messages[i]
                before == prior[msg.messageId]
                after  == store[msg.messageId]
            IN  msg.messageId # "" =>
                    IF IsNone(before) THEN InsertedInFull(msg, after, now)
                    ELSE IF /\ TsOr0(before[1].latestTimestamp) >= TsOr0(msg.latestTimestamp)
                            /\ before[1].latestStatus = msg.latestStatus
                    THEN OnlyScanRefreshed(before, after, now)
                    ELSE Overwritten(msg, before, after, now)

\* the same rule for the calls in which no timestamp compared is absent
C10_RuleWhenTimestampsPresent ==
    (caller = "save" /\ pc = "save_returned" /\ runs > 0
       /\ \A i \in 1..Len(messages) :
            messages[i].messageId # "" =>
              /\ ~IsNone(messages[i].latestTimestamp)
              /\ IsNone(prior[messages[i].messageId])
                   \/ ~IsNone(prior[messages[i].messageId][1].latestTimestamp))
    => C10_ThreeOutcomes

-----------------------------------------------------------------------------
(* Claims about repeated saves *)

\* the call that has just returned was a call of the save on its own
SaveReturned == caller = "save" /\ pc = "save_returned" /\ runs > 0

\* the stored document is what a save of this record leaves
StoredAsSaved(msg, doc) ==
    /\ ~IsNone(doc)
    /\ doc[1].latestStatus = msg.latestStatus
    /\ doc[1].latestTimestamp = msg.latestTimestamp
    /\ StoredHistory(doc[1]) = deduplicate_history(msg.history)

\* C11: saving a record again, with the status and timestamp the collection
\* already holds for it, only refreshes lastScannedAt and leaves every other
\* field of the document as it was; this is required of every record, the
\* not_found record without a timestamp included.  For that record the
\* comparison raises and the second call writes nothing at all.
C11_SecondSaveOnlyRefreshes ==
    ( /\ SaveReturned
      /\ \A i \in 1..Len(messages) :
            messages[i].messageId # "" =>
                StoredAsSaved(messages[i], prior[messages[i].messageId]) )
    => \A i \in 1..Len(messages) :
          messages[i].messageId # "" =>
              OnlyScanRefreshed(prior[messages[i].messageId],
                                store[messages[i].messageId], now)

\* C13: an event that was in the statusHistory of a stored document before a
\* save is still in it after the save.  An overwrite replaces statusHistory by
\* the history of the incoming record, so older events are lost.
C13_HistoryPreserved ==
    SaveReturned =>
        \A id \in MessageIds :
            ~IsNone(prior[id]) =>
                /\ ~IsNone(store[id])
                /\ Range(StoredHistory(prior[id][1])) \subseteq
                       Range(StoredHistory(store[id][1]))

\* C14: firstSeenAt is written when the document is inserted, as the clock
\* reading of that save, and no later step changes it or removes the document.
C14_FirstSeenAtSetOnce ==
    [][ \A id \in MessageIds :
          /\ (IsNone(store[id]) /\ ~IsNone(store'[id])) =>
                 store'[id][1].firstSeenAt = now
          /\ ~IsNone(store[id]) =>
                 /\ ~IsNone(store'[id])
                 /\ store'[id][1].firstSeenAt = store[id][1].firstSeenAt ]_vars

\* a document inserted by one save and overwritten by the next, next to one
\* that the second save only refreshed
C14_Witness ==
    /\ SaveReturned
    /\ ~IsNone(store["m1"]) /\ ~IsNone(store["m2"])
    /\ store["m1"][1].firstSeenAt < store["m1"][1].lastUpdatedAt
    /\ store["m2"][1].lastUpdatedAt < store["m2"][1].lastScannedAt

\* the record does not fail on its own: its comparison with the stored
\* document can be made
ProcessesAlone(msg) ==
    \/ IsNone(prior[msg.messageId])
    \/ ~ComparisonRaises(msg.latestTimestamp, prior[msg.messageId][1].latestTimestamp)

\* C15: every record of a batch is written whatever happens to the others: a
\* record that can be processed has its document scanned at this save's time.
\* One record whose comparison raises ends the call before bulk_write, and no
\* record of the batch is written.
C15_RecordsIndependent ==
    SaveReturned =>
        \A i \in 1..Len(messages) :
            (messages[i].messageId # "" /\ ProcessesAlone(messages[i])) =>
                /\ ~IsNone(store[messages[i].messageId])
                /\ store[messages[i].messageId][1].lastScannedAt = now

-----------------------------------------------------------------------------
(* The list fetch_executions returns *)

RECURSIVE Concat(_)
\* the batches of a list of batches, one after the other
Concat(batches) ==
    IF batches = <<>> THEN <<>> ELSE Head(batches) \o Concat(Tail(batches))

\* C19: when fetch_executions returns, the list returned is the first
\* min(N, total received) records of the received batches taken in the order
\* received, also when a page holds more records than were asked for; it is
\* never longer than N (N a count: a negative N asks for nothing).
C19_ResultIsPrefixOfReceived ==
    pc = "fetch_return" =>
        LET all == Concat(received)
            n   == Max(limit, 0)
        IN  /\ Len(fetch_executions_result) = Min(n, Len(all))
            /\ Len(fetch_executions_result) <= n
            /\ fetch_executions_result = SubSeq(all, 1, Len(fetch_executions_result))

\* two pages, the second one longer than what was still asked for
C19_Witness ==
    /\ caller = "fetch"
    /\ pc = "fetch_return"
    /\ limit = 2
    /\ Len(received) = 2
    /\ Len(received[1]) = 1
    /\ Len(received[2]) = 2
    /\ Len(out) = 3
    /\ Len(fetch_executions_result) = 2

-----------------------------------------------------------------------------
(* The order of the bulk result *)

\* record a belongs before record b: a has a timestamp and b has none, or both
\* have one and a's is the later
BelongsBefore(a, b) ==
    \/ ~IsNone(a.latestTimestamp) /\ IsNone(b.latestTimestamp)
    \/ /\ ~IsNone(a.latestTimestamp) /\ ~IsNone(b.latestTimestamp)
       /\ a.latestTimestamp[1] > b.latestTimestamp[1]

\* message identifiers among the collected events
FoundIds == { all_statuses[i].messageId : i \in 1..Len(all_statuses) }

\* C20: the messages of a bulk result are in descending order of
\* latestTimestamp with the records without a timestamp after all the others,
\* they are the first max_messages records of that order, and totalMessages
\* counts every message identifier found.  The sort key is "latestTimestamp or
\* 0", so a record without a timestamp ranks as timestamp 0: level with a record
\* at 0 and ahead of a record with a negative timestamp.
C20_SortedAbsentLastTruncated ==
    (caller = "bulk" /\ pc = "done") =>
        /\ result.totalMessages = Cardinality(FoundIds)
        /\ Len(result.messages) = Min(max_messages, Cardinality(FoundIds))
        /\ \A i, j \in 1..Len(result.messages) :
              i < j => ~BelongsBefore(result.messages[j], result.messages[i])
        /\ \A id \in FoundIds :
              (\A i \in 1..Len(result.messages) : result.messages[i].messageId # id) =>
                  \A i \in 1..Len(result.messages) :
                      ~BelongsBefore(MessageRecord(id, all_statuses), result.messages[i])

\* the same order for results in which every timestamp present is positive
C20_OrderWhenTimestampsPositive ==
    (caller = "bulk" /\ pc = "done"
       /\ \A i \in 1..Len(all_statuses) :
             IsNone(all_statuses[i].timestamp) \/ all_statuses[i].timestamp[1] > 0)
    => C20_SortedAbsentLastTruncated

-----------------------------------------------------------------------------
(* Tolerance of extract_status_updates to payload shapes *)

\* the events of the well-formed entries of the payload that are about the
\* tracked message
WellFormedEvents ==
    LET matching == SelectSeq(payload, LAMBDA o : o.shape = "ok" /\ o.id = message_id)
    IN  [i \in 1..Len(matching) |-> StatusEvent(matching[i], "e1", TrackedWaId)]

\* C18: extract_status_updates returns, whatever the shape of the payload, the
\* events of the well-formed branches; a branch of unexpected shape adds none.
\* A run whose data is null, an item whose json is not an object and a scalar
\* body make the traversal raise, and the events of the other branches of the
\* execution are lost with it.
C18_ExtractToleratesShapes ==
    (caller = "extract" /\ pc = "extracted") =>
        /\ ~extraction.raised
        /\ extraction.results = WellFormedEvents

\* the same for payloads whose odd branches are of the shapes the code tests for
C18_ToleratesTestedShapes ==
    (caller = "extract" /\ pc = "extracted"
       /\ \A i \in 1..Len(payload) : payload[i].shape \notin RaisingShapes)
    => C18_ExtractToleratesShapes

-----------------------------------------------------------------------------
(* Malformed execution records *)

\* C17: no execution record, whatever its shape, aborts the scan of either
\* mode: the scan never ends by an exception, and a finished track run holds
\* every event extracted from the executions it scanned that passes --since.
\* For a record that is not an object the warning handler itself raises and
\* the run ends without a result.
C17_MalformedNeverAborts ==
    /\ pc # "scan_raised"
    /\ (caller = "track" /\ pc = "done") =>
          \A i \in 1..Len(extracted) :
              PassesSince(extracted[i]) => extracted[i] \in Range(result.history)

\* the same for lists in which every record is an object
C17_ObjectsNeverAbort ==
    (\A i \in 1..Len(executions) : executions[i] \in ExecIds) => C17_MalformedNeverAborts

-----------------------------------------------------------------------------
(* Concurrent saves *)

BothReturned ==
    caller = "concurrent" /\ \A w \in Workers : workers[w].stage = "returned"

\* the collection after the two saves have run one after the other, first then second
OneAfterTheOther(first, second) ==
    save_one(save_one(prior, workers[first].msg, workers[first].now),
             workers[second].msg, workers[second].now)

\* C12: however the lookups and writes of two runs saving the same message
\* interleave, the collection ends as if the two saves had run one after the
\* other in some order.  Each run decides on what find_one returned and writes
\* later, so a run can write on a document the other has changed since.
C12_ConcurrentSavesSerialize ==
    BothReturned =>
        \/ store = OneAfterTheOther(1, 2)
        \/ store = OneAfterTheOther(2, 1)

-----------------------------------------------------------------------------
(* Persistence is best effort *)

\* C16: whatever happens in save_messages_to_mongodb (store unreachable,
\* create_index or the writes refused, an exception while the updates are
\* built), the call returns to main, no step changes the result, and what main
\* prints is that result.
C16_SaveFailureNotFatal ==
    /\ [](caller = "main" =>
            /\ pc # "main_raised"
            /\ pc = "save_returned" => (saved >= 0 /\ ENABLED main_print)
            /\ pc = "exit" => output = Some(result))
    /\ [][result' = result]_vars

\* the save of a not_found result failed on the stored document without a
\* timestamp, and the result was printed all the same
C16_Witness ==
    /\ caller = "main"
    /\ pc = "exit"
    /\ mongo = "ok"
    /\ saved = 0
    /\ ~IsNone(prior[message_id])
    /\ result.latestStatus = "not_found"
    /\ output = Some(result)

-----------------------------------------------------------------------------
(* Bulk mode against the Reconciler *)

\* the message has a status entry in the payload
OccursInPayload(id) == \E i \in 1..Len(payload) : payload[i].shape = "ok" /\ payload[i].id = id

\* what track mode resolves for the message id from the same execution, with
\* the same expected recipient and the same window
ReconcilerRecord(id) ==
    LET ex == extract_status_updates("e1", payload, id, wa_id[1])
    IN  TrackResult(SinceFilter(ex.results, since))

\* the records of the bulk result for the message id
BulkRecords(id) ==
    { i \in 1..Len(result.messages) : result.messages[i].messageId = id }

\* the traversal of the payload runs to its end
PayloadTraversed == \A i \in 1..Len(payload) : ~TraversalRaises(payload[i])

\* C21: for the same fetched execution, the same expected recipient and every
\* message identifier occurring in it, the bulk result has a record whose
\* latestStatus and latestTimestamp are those the Reconciler resolves for the
\* message's events, the wa_id_mismatch sentinel included.  Bulk mode drops
\* the events of another recipient while it collects (line 644) and has no
\* sentinel: a message whose events are all mismatched gets no record.
C21_BulkResolvesAsReconciler ==
    (caller = "list" /\ pc = "listed" /\ wa_id = Some(TrackedWaId) /\ PayloadTraversed) =>
        \A id \in MessageIds :
            (OccursInPayload(id) /\ ReconcilerRecord(id).history # <<>>) =>
                /\ BulkRecords(id) # {}
                /\ \A i \in BulkRecords(id) :
                      /\ result.messages[i].latestStatus = ReconcilerRecord(id).latestStatus
                      /\ result.messages[i].latestTimestamp = ReconcilerRecord(id).latestTimestamp

\* the same agreement for the messages that have an event of the expected
\* recipient or of no recipient
C21_SameWhenSomeEventValid ==
    (caller = "list" /\ pc = "listed" /\ wa_id = Some(TrackedWaId) /\ PayloadTraversed) =>
        \A id \in MessageIds :
            (/\ OccursInPayload(id)
             /\ ValidHistory(ReconcilerRecord(id).history) # <<>>) =>
                /\ BulkRecords(id) # {}
                /\ \A i \in BulkRecords(id) :
                      /\ result.messages[i].latestStatus = ReconcilerRecord(id).latestStatus
                      /\ result.messages[i].latestTimestamp = ReconcilerRecord(id).latestTimestamp

-----------------------------------------------------------------------------
(* Matching rule of the two modes *)

\* the fields of a status entry that an emitted event carries
EntryFields(o) == <<o.id, o.status, normalize_timestamp(o.timestamp), o.recipient_id>>

\* the entries of the payload that precede its first raising branch
TraversedPrefix ==
    LET raising == { i \in 1..Len(payload) : TraversalRaises(payload[i]) }
    IN  IF raising = {} THEN payload
        ELSE SubSeq(payload, 1, (CHOOSE i \in raising : \A j \in raising : i <= j) - 1)

\* the status entries among entries
StatusEntries(entries) == SelectSeq(entries, LAMBDA o : o.shape = "ok")

\* the entry is inside the window and is not addressed to another recipient
\* than the one filtered on
PassesFilters(o) ==
    /\ (IsNone(since) \/ since[1] = 0 \/ TsOr0(normalize_timestamp(o.timestamp)) >= since[1])
    /\ (~TruthyStr(wa_id) \/ ~TruthyStr(o.recipient_id) \/ o.recipient_id = wa_id)

\* what track mode emitted, as entry fields
EmittedForTarget ==
    [k \in 1..Len(extraction.results) |->
        <<message_id, extraction.results[k].status, extraction.results[k].timestamp,
          extraction.results[k].recipient_id>>]

\* what bulk mode emitted, as entry fields
EmittedInBulk ==
    [k \in 1..Len(all_statuses) |->
        <<all_statuses[k].messageId, all_statuses[k].status, all_statuses[k].timestamp,
          all_statuses[k].waId>>]

FieldsOf(entries) == [k \in 1..Len(entries) |-> EntryFields(entries[k])]

\* the track half of the rule: a call that returns emits exactly the status
\* entries whose id is the target, in document order; a call that raises
\* emits nothing
TargetRule ==
    (caller = "extract" /\ pc = "extracted") =>
        EmittedForTarget =
            IF PayloadTraversed
            THEN FieldsOf(SelectSeq(StatusEntries(payload), LAMBDA o : o.id = message_id))
            ELSE <<>>

\* C22: with a target id an event is emitted iff it is a status entry of the
\* execution whose id equals the target (nothing is emitted by a call that
\* raises); in bulk mode an event is emitted iff it is a status entry with a
\* non-empty id that passes the since and wa_id filters and that the traversal
\* reaches before it raises.
C22_EmittedIffMatching ==
    /\ TargetRule
    /\ (caller = "list" /\ pc = "listed") =>
          EmittedInBulk =
              FieldsOf(SelectSeq(StatusEntries(TraversedPrefix),
                                 LAMBDA o : o.id # "" /\ PassesFilters(o)))

\* bulk mode, filtering on the recipient, emitted the entry of a message and
\* dropped the entry without id that came with it
C22_Witness ==
    /\ caller = "list" /\ pc = "listed"
    /\ wa_id = Some(TrackedWaId)
    /\ Len(all_statuses) = 1
    /\ Len(payload) = 2
    /\ \E i \in 1..Len(payload) : payload[i].shape = "ok" /\ payload[i].id = ""

\* the rule without the filters: bulk mode emits every status entry with a
\* non-empty id of a payload it traverses to the end
C22_BulkEmitsEveryIdentified ==
    /\ TargetRule
    /\ (caller = "list" /\ pc = "listed" /\ PayloadTraversed) =>
          EmittedInBulk = FieldsOf(SelectSeq(StatusEntries(payload), LAMBDA o : o.id # ""))

-----------------------------------------------------------------------------
(* Recipient mismatch flag *)

\* C23: an emitted event has recipientMismatch true iff it carries a recipient
\* id and that id differs from the expected recipient; an event without
\* recipient id is never a mismatch.
C23_MismatchIffForeignRecipient ==
    (caller = "extract" /\ pc = "extracted") =>
        \A k \in 1..Len(extraction.results) :
            LET ev == extraction.results[k]
            IN  /\ ev.recipientMismatch <=>
                      (ev.recipient_id # None /\ ev.recipient_id # Some(TrackedWaId))
                /\ ev.recipient_id = None => ~ev.recipientMismatch

\* one call emitted an event of another recipient and an event without recipient
C23_Witness ==
    /\ caller = "extract" /\ pc = "extracted"
    /\ \E j, k \in 1..Len(extraction.results) :
          /\ extraction.results[j].recipient_id = Some("w2")
          /\ extraction.results[j].recipientMismatch
          /\ extraction.results[k].recipient_id = None
          /\ ~extraction.results[k].recipientMismatch

-----------------------------------------------------------------------------
(* Idempotence of the Reconciler *)

\* C24: deduplication and latest-status resolution run a second time, on the
\* events the first run was given or on the history the first run produced,
\* give the record of the first run: same history in the same order, same
\* latestStatus, latestTimestamp and count.
C24_ReconcilerIdempotent ==
    (caller = "track" /\ pc = "done") =>
        /\ TrackResult(all_statuses) = result
        /\ TrackResult(result.history) = result

\* the first run removed a duplicate and left two events of equal timestamp
C24_Witness ==
    /\ caller = "track" /\ pc = "done"
    /\ Len(all_statuses) = 3
    /\ Len(result.history) = 2
    /\ result.history[1].timestamp = result.history[2].timestamp
    /\ result.history[1].status # result.history[2].status

-----------------------------------------------------------------------------
(* The latest fields are derived from the history *)

\* C25: in a resolved record, latestTimestamp is the timestamp of an event of
\* history, and absent when history is empty; latestStatus is not_found when
\* history is empty, wa_id_mismatch when history is non-empty and every event
\* is recipient-mismatched, and otherwise the status of a non-mismatched event
\* of history that carries latestTimestamp.
C25_LatestDerivedFromHistory ==
    (caller = "track" /\ pc = "done") =>
        LET h == result.history
        IN  /\ h = <<>> =>
                  result.latestStatus = "not_found" /\ result.latestTimestamp = None
            /\ h # <<>> =>
                  \E i \in 1..Len(h) : h[i].timestamp = result.latestTimestamp
            /\ (h # <<>> /\ \A i \in 1..Len(h) : h[i].recipientMismatch) =>
                  result.latestStatus = "wa_id_mismatch"
            /\ (\E i \in 1..Len(h) : ~h[i].recipientMismatch) =>
                  \E i \in 1..Len(h) :
                      /\ ~h[i].recipientMismatch
                      /\ h[i].status = result.latestStatus
                      /\ h[i].timestamp = result.latestTimestamp

\* the history opens with a mismatched event that is newer than the event the
\* latest fields are taken from
C25_Witness ==
    /\ caller = "track" /\ pc = "done"
    /\ Len(result.history) >= 2
    /\ result.history[1].recipientMismatch
    /\ result.history[1].timestamp # result.latestTimestamp
    /\ result.latestStatus \notin {"not_found", "wa_id_mismatch"}

-----------------------------------------------------------------------------
(* Page size and cursor chaining of the listing calls *)

RECURSIVE FetchedBefore(_)
\* records received by the responses that precede the i-th call
FetchedBefore(i) == IF i <= 1 THEN 0 ELSE FetchedBefore(i - 1) + Len(received[i - 1])

\* the call being appended by a step
NewCall == calls'[Len(calls')]

\* C26: every listing call requests limit = min(100, N - fetched so far), a
\* value between 1 and 100; the first call carries no cursor and every later
\* call carries the nextCursor of the response just before it; with N <= 0
\* no call is made and the result is empty.
C26_PageLimitAndCursorChain ==
    /\ [](\A i \in 1..Len(calls) :
            /\ calls[i].limit = Min(100, limit - FetchedBefore(i))
            /\ calls[i].limit >= 1 /\ calls[i].limit <= 100)
    /\ [](calls # <<>> => calls[1].cursor = None)
    /\ [][(pc = "http_returned" /\ pc' = "fetch_loop") =>
              (cursor' = httpResult.body.nextCursor /\ TruthyStr(cursor'))]_vars
    /\ [][(pc = "fetch_loop" /\ pc' = "request" /\ calls # <<>>) =>
              NewCall.cursor = cursor]_vars
    /\ [](limit <= 0 =>
            (calls = <<>> /\ (pc = "fetch_return" => fetch_executions_result = <<>>)))

\* 100 records asked and one received: the second call asks for the 99 still
\* missing and carries the cursor just received
C26_Witness ==
    /\ caller = "fetch"
    /\ pc = "http_returned"
    /\ limit = 100
    /\ received = << <<"e1">> >>
    /\ calls = << [limit |-> 100, cursor |-> None], [limit |-> 99, cursor |-> Some("c2")] >>

-----------------------------------------------------------------------------
(* Present against absent timestamps *)

\* non-mismatched events of the history that have a timestamp and the priority p
DatedAtPriority(p) ==
    { i \in ValidIndices(history) :
        history[i].timestamp # None /\ ListedPriority(history[i].status) = p }

\* C27: among the non-mismatched events of one priority, an event with a
\* timestamp outranks an event without one, whatever integer the timestamp is:
\* the latest is never an event without timestamp while an event of the same
\* priority has one.  The sort key is "timestamp or 0", so an absent
\* timestamp ranks level with 0 and above every negative timestamp.
C27_PresentOutranksAbsent ==
    (pc = "resolved" /\ ValidIndices(history) # {} /\ resolved.timestamp = None) =>
        DatedAtPriority(ListedPriority(resolved.status)) = {}

\* the same for histories whose timestamps are all positive
C27_PositiveOutranksAbsent ==
    (pc = "resolved" /\ ValidIndices(history) # {} /\ resolved.timestamp = None
       /\ \A i \in 1..Len(history) :
             history[i].timestamp = None \/ history[i].timestamp[1] > 0) =>
        DatedAtPriority(ListedPriority(resolved.status)) = {}

-----------------------------------------------------------------------------
(* lastScannedAt after a save *)

\* run w sends its queued operation in this step
Writes(w) == workers[w].stage = "queued" /\ workers'[w].stage = "returned"

\* C28: when a save has written the operation it queued for a record, the
\* stored document of that message has lastScannedAt equal to the time of that
\* save, whichever operation was queued, also when another run inserted the
\* document between this run's lookup and its write.  The operation queued
\* for a message not found is a $setOnInsert upsert, which changes nothing in a
\* document that exists by the time it is written.
C28_LastScannedAtSetByEverySave ==
    [][\A w \in Workers :
          Writes(w) =>
              /\ store'[workers[w].msg.messageId] # None
              /\ store'[workers[w].msg.messageId][1].lastScannedAt = workers[w].now]_vars

\* the same for a run whose lookup still describes the collection when it writes
C28_SetWhenLookupIsCurrent ==
    [][\A w \in Workers :
          (Writes(w) /\ (workers[w].op.kind = "insert" => store[workers[w].msg.messageId] = None)) =>
              /\ store'[workers[w].msg.messageId] # None
              /\ store'[workers[w].msg.messageId][1].lastScannedAt = workers[w].now]_vars

-----------------------------------------------------------------------------
(* Stored latestTimestamp over successive saves *)

\* timestamp a is older than timestamp b, both present
Older(a, b) == a # None /\ b # None /\ a[1] < b[1]

\* the records of the current batch for the message id
BatchRecords(id) == { i \in 1..Len(messages) : messages[i].messageId = id }

\* C29: over the saves, the stored latestTimestamp of a message does not
\* decrease as long as its stored latestStatus stays the same, and a save whose
\* record has an older latestTimestamp and the stored latestStatus leaves the
\* stored latestStatus and latestTimestamp as they were.  (A record with
\* another status overwrites both, older or not.)  prior is the collection as
\* the current save found it.
C29_TimestampKeptWhileStatusKept ==
    \A id \in MessageIds :
        prior[id] # None =>
            /\ store[id] # None
            /\ store[id][1].latestStatus = prior[id][1].latestStatus =>
                  ~Older(store[id][1].latestTimestamp, prior[id][1].latestTimestamp)
            /\ \A i \in BatchRecords(id) :
                  (/\ Older(messages[i].latestTimestamp, prior[id][1].latestTimestamp)
                   /\ messages[i].latestStatus = prior[id][1].latestStatus) =>
                      /\ store[id][1].latestStatus = prior[id][1].latestStatus
                      /\ store[id][1].latestTimestamp = prior[id][1].latestTimestamp

\* the second save brought sent at 1 for a message stored as sent at 2: the
\* document keeps sent at 2 and only its scan time moved
C29_Witness ==
    /\ caller = "save" /\ pc = "save_returned" /\ runs = 2 /\ saved = 1
    /\ messages = <<MessageRecord_saved("m1", "sent", Some(1), 1)>>
    /\ prior["m1"] # None
    /\ prior["m1"][1].latestStatus = "sent" /\ prior["m1"][1].latestTimestamp = Some(2)
    /\ store["m1"][1].latestStatus = "sent" /\ store["m1"][1].latestTimestamp = Some(2)
    /\ store["m1"][1].lastScannedAt = now

\* the stored latestTimestamp never decreases, and a record with an older
\* latestTimestamp leaves the stored latestStatus and latestTimestamp unchanged
C29_TimestampNeverDecreases ==
    \A id \in MessageIds :
        prior[id] # None =>
            /\ store[id] # None
            /\ ~Older(store[id][1].latestTimestamp, prior[id][1].latestTimestamp)
            /\ \A i \in BatchRecords(id) :
                  Older(messages[i].latestTimestamp, prior[id][1].latestTimestamp) =>
                      /\ store[id][1].latestStatus = prior[id][1].latestStatus
                      /\ store[id][1].latestTimestamp = prior[id][1].latestTimestamp

-----------------------------------------------------------------------------
(* Early exit against the full scan *)

\* the scan stopped at a terminal status with a fetched execution left unscanned
StoppedEarly ==
    /\ caller = "track" /\ pc = "done"
    /\ found_terminal
    /\ scanIdx < Len(executions)

\* what the run would have resolved had it also scanned the next execution,
\* for one of the contents that execution can have
WithNextScanned(ex) ==
    TrackResult(all_statuses \o SinceFilter(ex.results, since))

\* C30: the early exit is a pure optimisation: the latestStatus and
\* latestTimestamp resolved after stopping at the first execution with a
\* terminal-status event, mismatched or not, are those resolved by scanning on,
\* whatever the unscanned execution holds.  The loop tests the status alone
\* (lines 752-755): it also stops at a terminal event of another recipient,
\* and the valid events of the executions after it are never seen.
C30_EarlyExitIsPureOptimisation ==
    StoppedEarly =>
        \A ex \in Extractions[executions[scanIdx + 1]] :
            /\ WithNextScanned(ex).latestStatus = result.latestStatus
            /\ WithNextScanned(ex).latestTimestamp = result.latestTimestamp

\* the same when the scan stopped at a terminal event of the expected recipient
\* and every event of the unscanned execution is older than the collected ones
C30_SameWhenTerminalIsValidAndNewest ==
    (StoppedEarly /\ \E i \in 1..Len(all_statuses) :
                        /\ ~all_statuses[i].recipientMismatch
                        /\ is_terminal_status(all_statuses[i].status)) =>
        \A ex \in Extractions[executions[scanIdx + 1]] :
            (\A k \in 1..Len(ex.results) : \A i \in 1..Len(all_statuses) :
                 ~all_statuses[i].recipientMismatch =>
                     TsOr0(ex.results[k].timestamp) < TsOr0(all_statuses[i].timestamp)) =>
                /\ WithNextScanned(ex).latestStatus = result.latestStatus
                /\ WithNextScanned(ex).latestTimestamp = result.latestTimestamp

-----------------------------------------------------------------------------
(* Resolution against the order of the events *)

\* the orderings of n events
Orderings(n) == { f \in [1..n -> 1..n] : \A i, j \in 1..n : i # j => f[i] # f[j] }

\* the history in the ordering f
Reordered(f) == [i \in 1..Len(history) |-> history[f[i]]]

\* the latest fields of a resolution
LatestOf(status, timestamp) == [status |-> status, timestamp |-> timestamp]

\* what track mode resolves for the events in the order given (lines 766-790)
TrackLatest(events) ==
    LatestOf(TrackResult(events).latestStatus, TrackResult(events).latestTimestamp)

\* what bulk mode resolves for a group in the order given (lines 671-684)
BulkLatest(events) ==
    LatestOf(GroupHistory(events)[1].status, GroupHistory(events)[1].timestamp)

\* no two of the events at the indices given share (timestamp-or-0, priority)
\* while differing in status or timestamp
NoTieAmong(indices) ==
    \A i, j \in indices :
        RankKey(history[i]) = RankKey(history[j]) =>
            /\ history[i].status = history[j].status
            /\ history[i].timestamp = history[j].timestamp

\* events that agree on the deduplication key of track mode agree on the
\* mismatch flag, which is computed from the recipient in the key
FlagsFollowKeys ==
    \A i, j \in 1..Len(history) :
        DedupKey(history[i]) = DedupKey(history[j]) => history[i] = history[j]

\* C31: the resolved latestStatus and latestTimestamp are the same for every
\* ordering of the same events, in determine_latest_status, in track mode and
\* in the per-group resolution of bulk mode, events that tie on
\* (timestamp-or-0, priority) included.  The sorts are stable, so of two
\* events with equal keys the one that came first stays first: failed and
\* undelivered at one timestamp resolve to whichever was collected first.
C31_LatestIndependentOfOrder ==
    (pc = "resolved" /\ history # <<>>) =>
        \A f \in Orderings(Len(history)) :
            /\ determine_latest_status(Reordered(f)) = resolved
            /\ FlagsFollowKeys => TrackLatest(Reordered(f)) = TrackLatest(history)
            /\ BulkLatest(Reordered(f)) = BulkLatest(history)

\* the same for track mode when the non-mismatched events do not tie, and for
\* bulk mode when no events tie
C31_IndependentWithoutTies ==
    (pc = "resolved" /\ history # <<>>) =>
        \A f \in Orderings(Len(history)) :
            /\ (ValidIndices(history) # {} /\ NoTieAmong(ValidIndices(history))) =>
                  /\ determine_latest_status(Reordered(f)) = resolved
                  /\ FlagsFollowKeys => TrackLatest(Reordered(f)) = TrackLatest(history)
            /\ NoTieAmong(1..Len(history)) =>
                  BulkLatest(Reordered(f)) = BulkLatest(history)

-----------------------------------------------------------------------------
(* statusCount and statusHistory of the stored documents *)

\* the entries of h that no earlier entry of h matches on
\* (status, timestamp, executionId), in the order of h
FirstOccurrences(h) ==
    LET Kept(n) == { j \in 1..n : \A i \in 1..(j - 1) : HistoryKey(h[i]) # HistoryKey(h[j]) }
        F[n \in 0..Len(h)] ==
            IF n = 0 THEN <<>>
            ELSE IF n \in Kept(n) THEN Append(F[n - 1], h[n]) ELSE F[n - 1]
    IN  F[Len(h)]

\* the save that last wrote the content of the document of id is the current
\* one, with the record at index i of its batch
WrittenFrom(id, i) ==
    /\ messages[i].messageId = id
    /\ store[id] # None
    /\ store[id] # prior[id]
    /\ store[id][1].lastUpdatedAt = now

\* C32: in every stored document, after any sequence of saves, statusCount is
\* the number of entries of statusHistory (none when the document has no
\* statusHistory), no two entries of statusHistory agree on (status,
\* timestamp, executionId), and the history a save writes is the record's
\* history with the first occurrence of each such triple kept, in input order.
C32_CountAndHistoryAgree ==
    \A id \in MessageIds :
        store[id] # None =>
            /\ store[id][1].statusCount = Len(StoredHistory(store[id][1]))
            /\ \A j, k \in 1..Len(StoredHistory(store[id][1])) :
                  j # k => HistoryKey(StoredHistory(store[id][1])[j])
                             # HistoryKey(StoredHistory(store[id][1])[k])
            /\ \A i \in 1..Len(messages) :
                  WrittenFrom(id, i) =>
                      StoredHistory(store[id][1]) = FirstOccurrences(messages[i].history)

\* the second save overwrote the document of m1 with a record whose history
\* repeats an entry: one entry is stored, the first, and it is counted once
C32_Witness ==
    /\ caller = "save" /\ pc = "save_returned" /\ runs = 2
    /\ prior["m1"] # None
    /\ \E i \in 1..Len(messages) :
          /\ WrittenFrom("m1", i)
          /\ Len(messages[i].history) = 2
    /\ store["m1"][1].statusCount = 1
    /\ StoredHistory(store["m1"][1])[1].recipientId = Some(TrackedWaId)

-----------------------------------------------------------------------------
(* The filters of bulk mode *)

\* the events of the histories of the returned records
ReturnedEvents ==
    UNION { Range(result.messages[i].history) : i \in 1..Len(result.messages) }

\* the status entries with an id that the traversal reaches and the filters pass
KeptEntries ==
    { i \in 1..Len(TraversedPrefix) :
        /\ TraversedPrefix[i].shape = "ok"
        /\ TraversedPrefix[i].id # ""
        /\ PassesFilters(TraversedPrefix[i]) }

\* C33: in bulk mode with a recipient filter, no event of a returned history
\* carries a recipient other than wa_id, and the events without recipient are
\* kept; with a since filter every returned event has timestamp-or-0 >= since;
\* a message all of whose events are filtered out has no record and is not
\* counted in totalMessages.
C33_FiltersKeepAndDrop ==
    (caller = "list" /\ pc = "listed") =>
        /\ TruthyStr(wa_id) =>
              \A e \in ReturnedEvents : e.waId = None \/ e.waId = wa_id
        /\ (since # None /\ since[1] # 0) =>
              \A e \in ReturnedEvents : TsOr0(e.timestamp) >= since[1]
        /\ \A i \in KeptEntries :
              TraversedPrefix[i].recipient_id = None =>
                  \E e \in ReturnedEvents :
                      /\ e.messageId = TraversedPrefix[i].id
                      /\ e.status = TraversedPrefix[i].status
                      /\ e.timestamp = normalize_timestamp(TraversedPrefix[i].timestamp)
                      /\ e.waId = None
        /\ \A id \in MessageIds :
              (\A i \in KeptEntries : TraversedPrefix[i].id # id) => BulkRecords(id) = {}
        /\ result.totalMessages = Cardinality({ TraversedPrefix[i].id : i \in KeptEntries })

\* filtering on w1: the event of m1 without recipient is returned, the only
\* event of m2 is of w2 and m2 is neither returned nor counted
C33_Witness ==
    /\ caller = "list" /\ pc = "listed"
    /\ wa_id = Some(TrackedWaId)
    /\ OccursInPayload("m1") /\ OccursInPayload("m2")
    /\ result.totalMessages = 1
    /\ Len(result.messages) = 1
    /\ result.messages[1].messageId = "m1"
    /\ result.messages[1].history[1].waId = None

=============================================================================
